---- MODULE Spec2Model ----
(***************************************************************************)
(* A model of the sprite codec (PixelRendr), the quadrant grid             *)
(* (QuadsKeepr) and the quadrant renderer (PixelDrawr) of                  *)
(* src/GameStartr/AudioPlayr/AudioPlayr.js.                                *)
(*                                                                         *)
(* Quadrants are JavaScript objects shared between the row containers, the *)
(* column containers and the Things, so they live in a heap (id -> record) *)
(* and the containers hold ids.  JavaScript arrays are 0-based; sequences  *)
(* here are 1-based, so the code's index i is position i + 1.              *)
(***************************************************************************)
EXTENDS Integers, Sequences, FiniteSets, TLC

VARIABLES
    world,          \* the QuadsKeepr instance (numRows, numCols, top, right, bottom,
                    \* left, offsetX, offsetY, quadrantRows, quadrantCols), the
                    \* Quadrant objects by id (heap), the Things by name (things)
                    \* and the onAdd / onRemove calls of the last operation (calls)
    framesDrawn,    \* PixelDrawr.framesDrawn, kept modulo framerateSkip
    drawn,          \* the canvas calls made by the last refillQuadrantGroups
    last,           \* the last operation, its arguments and the grid before it
    ops,            \* the number of operations counted against MaxOps
    filr,           \* a StringFilr: its library, its cache and its last get
    rendr,          \* a PixelRendr: the sprites of its library, the caches of its
                    \* BaseFiler and ProcessorDims, and its last call
    sprite,         \* a PixelRendr and one call of its spriteUnravel: paletteDefault,
                    \* the argument colors, the locals loc, paletteref, digitsize and
                    \* output, and what the last pass of its loop read and wrote
    canvas,         \* a Thing, the canvas context it is drawn on and the draw call made
    runner,         \* a GamesRunnr and the callbacks its upkeepScheduler holds
    player,         \* an AudioPlayr
    stats,          \* a StatsHoldr with one StatsValue, and the last call made on it
    maps,           \* a MapsHandlr: the PreThings of the current area and the
                    \* onSpawn / onUnspawn calls made on them
    physics         \* a Thing as EightBittr's position functions leave it

vars == <<world, framesDrawn, drawn, last, ops, filr, rendr, sprite, canvas, runner, player, stats, maps, physics>>

(***************************************************************************)
(* Settings given to the constructors.                                     *)
(***************************************************************************)
settingsNumRows == 3
settingsNumCols == 3
quadrantWidth == 10
quadrantHeight == 10
startLeft == 0
startTop == 0
groupNames == <<"Character", "Solid">>
keyOffsetX == FALSE
keyOffsetY == FALSE
framerateSkip == 2
unitsize == 1
epsilon == 7
noRefill == FALSE
scale == 2
flipHoriz == <<"h">>
flipVert == <<"v">>
doMakeCache == TRUE
doUseCache == TRUE
MapScreenerWidth == 30
MapScreenerHeight == 30

(***************************************************************************)
(* Bounds of the model.                                                    *)
(***************************************************************************)
MaxOps == 3
MaxRows == 5
MaxParts == 3
MaxGets == 2
MaxDecodes == 2
MaxFlips == 2
MaxPixels == 2
MaxFilter == 2
MaxBorder == 3
MaxTimes == 3
MaxHandles == 8
MaxValue == 10
MaxSpawns == 3
ShiftVectors == {<<5, 0>>, <<-5, 0>>, <<0, 5>>, <<0, -5>>, <<15, 0>>, <<-15, 0>>, <<0, 15>>, <<0, -15>>, <<5, 5>>, <<-5, -5>>, <<15, 5>>, <<-15, -5>>, <<5, -15>>, <<-5, 15>>, <<25, 0>>, <<-25, 0>>, <<0, 25>>}
MoveVectors == {<<10, 0>>, <<0, 10>>, <<-5, -5>>, <<-15, 5>>}
ScrollVectors == {<<-15, 0>>, <<5, 5>>, <<0, 15>>}
ThingOrder == <<"a", "b">>
ThingNames == {ThingOrder[i] : i \in 1..Len(ThingOrder)}

Abs(x) == IF x < 0 THEN -x ELSE x
Max(a, b) == IF a > b THEN a ELSE b
Min(a, b) == IF a < b THEN a ELSE b
Undefined == "undefined"

\* x | 0 cuts a number to a signed 32-bit integer.  The deltas given here are
\* integers within that range, which it leaves as they are.
ToInt32(x) == x

SeqIds(containers) == UNION {{containers[i].quadrants[j] : j \in 1..Len(containers[i].quadrants)} : i \in 1..Len(containers)}

\* The ids of the Quadrants something still refers to.
Reachable(w) == SeqIds(w.quadrantRows) \cup SeqIds(w.quadrantCols) \cup UNION {{w.things[t].quadrants[i] : i \in 1..Len(w.things[t].quadrants)} : t \in DOMAIN w.things}

\* Garbage collection: Quadrants nothing refers to leave the heap.
Collect(w) == [w EXCEPT !.heap = [id \in (DOMAIN w.heap) \cap Reachable(w) |-> w.heap[id]]]

\* Quadrant ids are not observable, so the state keeps them in a canonical
\* numbering: by first appearance in the rows, then the columns, then the
\* Things.  Quadrants nothing refers to leave the heap on the way.
RECURSIVE Flatten(_)
Flatten(lists) == IF lists = <<>> THEN <<>> ELSE Head(lists) \o Flatten(Tail(lists))

RECURSIVE Distinct(_, _)
Distinct(ids, seen) == IF ids = <<>> THEN <<>> ELSE IF Head(ids) \in seen THEN Distinct(Tail(ids), seen) ELSE <<Head(ids)>> \o Distinct(Tail(ids), seen \cup {Head(ids)})

Canonical(w) ==
    LET order == Distinct(Flatten([i \in 1..Len(w.quadrantRows) |-> w.quadrantRows[i].quadrants]) \o Flatten([i \in 1..Len(w.quadrantCols) |-> w.quadrantCols[i].quadrants]) \o Flatten([i \in 1..Len(ThingOrder) |-> w.things[ThingOrder[i]].quadrants]), {})
        name == [id \in {order[i] : i \in 1..Len(order)} |-> CHOOSE i \in 1..Len(order) : order[i] = id]
        renamed(ids) == [i \in 1..Len(ids) |-> name[ids[i]]]
    IN  [w EXCEPT !.heap = [n \in 1..Len(order) |-> w.heap[order[n]]], !.quadrantRows = [i \in 1..Len(@) |-> [@[i] EXCEPT !.quadrants = renamed(@)]], !.quadrantCols = [i \in 1..Len(@) |-> [@[i] EXCEPT !.quadrants = renamed(@)]], !.things = [t \in DOMAIN @ |-> [@[t] EXCEPT !.quadrants = renamed(@)]]]

NewId(w) == CHOOSE n \in 1..(Cardinality(DOMAIN w.heap) + 1) : n \notin DOMAIN w.heap /\ \A m \in 1..(n - 1) : m \in DOMAIN w.heap

onAdd(w, direction, t, r, b, l) == [w EXCEPT !.calls = Append(@, [fn |-> "onAdd", direction |-> direction, top |-> t, right |-> r, bottom |-> b, left |-> l])]

onRemove(w, direction, t, r, b, l) == [w EXCEPT !.calls = Append(@, [fn |-> "onRemove", direction |-> direction, top |-> t, right |-> r, bottom |-> b, left |-> l])]

(***************************************************************************)
(* Strings are sequences of one-character strings; positions in the code   *)
(* count from 0.                                                           *)
(***************************************************************************)
DigitChars == <<"0", "1", "2", "3", "4", "5", "6", "7", "8", "9">>
UndefinedChars == <<"u", "n", "d", "e", "f", "i", "n", "e", "d">>
NaN == -1

\* String(n) for a number n >= 0.
RECURSIVE StringOfNumber(_)
StringOfNumber(n) == IF n < 10 THEN <<DigitChars[n + 1]>> ELSE StringOfNumber(n \div 10) \o <<DigitChars[(n % 10) + 1]>>

\* String(array) for an array of numbers: the numbers joined by commas.
RECURSIVE StringOfArray(_)
StringOfArray(array) == IF array = <<>> THEN <<>> ELSE IF Len(array) = 1 THEN StringOfNumber(array[1]) ELSE StringOfNumber(array[1]) \o <<",">> \o StringOfArray(Tail(array))

DigitValue(c) == CHOOSE v \in 0..9 : DigitChars[v + 1] = c
IsDigit(c) == \E v \in 0..9 : DigitChars[v + 1] = c

\* Number(str): 0 for the empty string, NaN when a character is no digit.
RECURSIVE NumberOfDigits(_, _)
NumberOfDigits(str, acc) == IF str = <<>> THEN acc ELSE NumberOfDigits(Tail(str), acc * 10 + DigitValue(Head(str)))
Number(str) == IF \A i \in 1..Len(str) : IsDigit(str[i]) THEN NumberOfDigits(str, 0) ELSE NaN

\* str[index], undefined beyond the end.
CharAt(str, index) == IF index >= 0 /\ index < Len(str) THEN str[index + 1] ELSE Undefined

\* str.slice(start, end).
Slice(str, start, end) ==
    LET from == IF start < 0 THEN Max(Len(str) + start, 0) ELSE Min(start, Len(str))
        to == IF end < 0 THEN Max(Len(str) + end, 0) ELSE Min(end, Len(str))
    IN  IF to <= from THEN <<>> ELSE SubSeq(str, from + 1, to)

\* str.indexOf(c, from).
IndexOf(str, c, from) ==
    LET found == {i \in Max(from, 0)..(Len(str) - 1) : str[i + 1] = c}
    IN  IF found = {} THEN -1 ELSE CHOOSE i \in found : \A j \in found : i <= j

\* str.split(c).
RECURSIVE Split(_, _)
Split(str, c) ==
    LET at == IndexOf(str, c, 0)
    IN  IF at = -1 THEN <<str>> ELSE <<Slice(str, 0, at)>> \o Split(Slice(str, at + 1, Len(str)), c)

\* str repeated times times; nothing for times <= 0 (and for NaN).
RECURSIVE Repeat(_, _)
Repeat(str, times) == IF times <= 0 THEN <<>> ELSE str \o Repeat(str, times - 1)

(***************************************************************************)
(* StringFilr.  A library is the set of the paths of its tree: the node at *)
(* path p has the key k when Append(p, k) is a path, and a node stands for *)
(* what the library holds there.                                           *)
(***************************************************************************)
normal == <<"n">>

\* str.replace(pattern, ""): str without the first occurrence of pattern.
ReplaceFirst(str, pattern) ==
    LET found == {i \in 0..(Len(str) - Len(pattern)) : Slice(str, i, i + Len(pattern)) = pattern}
    IN  IF found = {} THEN str
        ELSE LET at == CHOOSE i \in found : \A j \in found : i <= j
             IN  Slice(str, 0, at) \o Slice(str, at + Len(pattern), Len(str))

\* str.split(/\s+/g).
RECURSIVE SplitSpaces(_)
SplitSpaces(str) ==
    LET at == IndexOf(str, " ", 0)
        others == {i \in at..(Len(str) - 1) : str[i + 1] # " "}
        next == IF others = {} THEN Len(str) ELSE CHOOSE i \in others : \A j \in others : i <= j
    IN  IF at = -1 THEN <<str>> ELSE <<Slice(str, 0, at)>> \o SplitSpaces(Slice(str, next, Len(str)))

\* keys.splice(i, 1), i counted from 1 here.
Splice(keys, i) == SubSeq(keys, 1, i - 1) \o SubSeq(keys, i + 1, Len(keys))

\* followClass(keys, current) in the library given; current is a path.
RECURSIVE followClass(_, _, _)
followClass(library, keys, current) ==
    LET matching == {i \in 1..Len(keys) : Append(current, keys[i]) \in library}
        first == CHOOSE i \in matching : \A j \in matching : i <= j
    IN  IF keys = <<>> THEN current
        ELSE IF matching # {} THEN followClass(library, Splice(keys, first), Append(current, keys[first]))
        ELSE IF Append(current, normal) \in library THEN followClass(library, keys, Append(current, normal))
        ELSE current

\* get(keyRaw): the result and the cache afterwards.
get(f, keyRaw) ==
    LET key == ReplaceFirst(keyRaw, normal)
        result == followClass(f.library, SplitSpaces(key), <<>>)
    IN  IF key \in DOMAIN f.cache
        THEN [result |-> f.cache[key], cache |-> f.cache]
        ELSE [result |-> result, cache |-> [k \in DOMAIN f.cache \cup {key, keyRaw} |-> IF k \in {key, keyRaw} THEN result ELSE f.cache[k]]]

\* Whether what the library holds at a path is an Object: it has keys.
IsObject(library, path) == \E longer \in library : Len(longer) > Len(path) /\ SubSeq(longer, 1, Len(path)) = path

\* findLackingNormal(current, path, output): the paths pushed to output.
\* i is undefined when current[i] is read, so the keys of current are gone
\* through only when current has a key "undefined" that holds an Object.
RECURSIVE findLackingNormal(_, _)
findLackingNormal(library, current) ==
    LET lacking == IF Append(current, normal) \notin library THEN {current} ELSE {}
        keys == {path \in library : Len(path) = Len(current) + 1 /\ SubSeq(path, 1, Len(current)) = current}
    IN  IF IsObject(library, Append(current, UndefinedChars))
        THEN lacking \cup UNION {findLackingNormal(library, path) : path \in keys}
        ELSE lacking

\* ensureLibraryNormal(): whether it throws.
ensureLibraryNormal(library) == findLackingNormal(library, <<>>) # {}

\* new StringFilr(settings), with a library and a normal given: whether it
\* throws.
newStringFilr(settings) == settings.requireNormalKey /\ ensureLibraryNormal(settings.library)

(***************************************************************************)
(* PixelRendr: palettes and spriteUnravel.                                 *)
(***************************************************************************)
\* Math.floor(Math.log(palette.length) / Math.LN10) + 1, for 1 <= length < 1000.
getDigitSize(palette) == IF Len(palette) < 10 THEN 1 ELSE IF Len(palette) < 100 THEN 2 ELSE 3

\* stringOf(str, times): times 0 gives "", and (times || 1) copies otherwise.
stringOf(str, times) == IF times = 0 THEN <<>> ELSE Repeat(str, times)

\* makeDigit(num, size) with the prefix "0"; num is given as String(num).
makeDigit(num, size) == stringOf(<<"0">>, Max(0, size - Len(num))) \o num

\* getPaletteReference(palette); the members of palette are given as the
\* strings String(palette[i]) that makeDigit turns them into.
getPaletteReference(palette) ==
    LET digitsize == getDigitSize(palette)
        keys == {makeDigit(StringOfNumber(i), digitsize) : i \in 0..(Len(palette) - 1)}
    IN  [key \in keys |-> LET i == CHOOSE i \in 0..(Len(palette) - 1) : makeDigit(StringOfNumber(i), digitsize) = key IN makeDigit(palette[i + 1], digitsize)]

getPaletteReferenceStarting(palette, digitsizeDefault) ==
    LET keys == {makeDigit(StringOfNumber(i), digitsizeDefault) : i \in 0..(Len(palette) - 1)}
    IN  [key \in keys |-> key]

\* paletteref[key], undefined for a key it does not have.
Lookup(paletteref, key) == IF key \in DOMAIN paletteref THEN paletteref[key] ELSE UndefinedChars

\* The members of the default palette as String() gives them.
PaletteStrings(paletteDefault) == [i \in 1..Len(paletteDefault) |-> StringOfArray(paletteDefault[i])]

\* The locals of spriteUnravel when its loop starts.
spriteUnravelStart(paletteDefault, colors) ==
    [paletteDefault |-> paletteDefault, colors |-> colors, loc |-> 0, paletteref |-> getPaletteReferenceStarting(paletteDefault, getDigitSize(paletteDefault)), digitsize |-> getDigitSize(paletteDefault), output |-> <<>>]

\* case "x", had it written the digit once whatever the count.
spriteUnravelRunOnce(st) ==
    LET digitsizeDefault == getDigitSize(st.paletteDefault)
        loc1 == st.loc + 1
        nixloc == IndexOf(st.colors, ",", loc1)
        current == makeDigit(Lookup(st.paletteref, Slice(st.colors, loc1, loc1 + st.digitsize)), digitsizeDefault)
    IN  [st EXCEPT !.output = @ \o current, !.loc = nixloc + 1]

\* case "x"
spriteUnravelRun(st) ==
    LET digitsizeDefault == getDigitSize(st.paletteDefault)
        loc1 == st.loc + 1
        nixloc == IndexOf(st.colors, ",", loc1)
        current == makeDigit(Lookup(st.paletteref, Slice(st.colors, loc1, loc1 + st.digitsize)), digitsizeDefault)
        loc2 == loc1 + st.digitsize
        rep == Number(Slice(st.colors, loc2, nixloc))
    IN  [st EXCEPT !.output = @ \o Repeat(current, rep), !.loc = nixloc + 1]

\* case "p"
spriteUnravelPalette(st) ==
    LET loc1 == st.loc + 1
        nixloc == IndexOf(st.colors, "]", 0)
    IN  IF CharAt(st.colors, loc1) = "["
        THEN [st EXCEPT !.paletteref = getPaletteReference(Split(Slice(st.colors, loc1 + 1, nixloc), ",")), !.loc = nixloc + 1, !.digitsize = 1]
        ELSE [st EXCEPT !.paletteref = getPaletteReference(PaletteStrings(st.paletteDefault)), !.digitsize = getDigitSize(st.paletteDefault), !.loc = loc1]

\* default, had it moved on by one character whatever the digit size.
spriteUnravelLiteralByOne(st) ==
    [st EXCEPT !.output = @ \o makeDigit(Lookup(st.paletteref, Slice(st.colors, st.loc, st.loc + st.digitsize)), getDigitSize(st.paletteDefault)), !.loc = st.loc + 1]

\* default
spriteUnravelLiteral(st) ==
    [st EXCEPT !.output = @ \o makeDigit(Lookup(st.paletteref, Slice(st.colors, st.loc, st.loc + st.digitsize)), getDigitSize(st.paletteDefault)), !.loc = st.loc + st.digitsize]

\* One pass of the while loop of spriteUnravel.
spriteUnravelStep(st) ==
    CASE CharAt(st.colors, st.loc) = "x" -> spriteUnravelRun(st)
      [] CharAt(st.colors, st.loc) = "p" -> spriteUnravelPalette(st)
      [] OTHER -> spriteUnravelLiteral(st)

\* The loop of spriteUnravel, given at most fuel passes; the result is the
\* locals when it ends or the passes are used up.
RECURSIVE spriteUnravelLoop(_, _)
spriteUnravelLoop(st, fuel) == IF st.loc < Len(st.colors) /\ fuel > 0 THEN spriteUnravelLoop(spriteUnravelStep(st), fuel - 1) ELSE st

\* spriteUnravel(colors) for an encoding whose every pass moves forward.
spriteUnravel(paletteDefault, colors) == spriteUnravelLoop(spriteUnravelStart(paletteDefault, colors), Len(colors)).output

\* spriteGetArray(colors): the RGBA values of the members of the default
\* palette that the digit groups of colors name, in a Uint8ClampedArray of
\* numcolors * 4 values; reading a member the palette does not have throws
\* a TypeError.
spriteGetArray(paletteDefault, colors) ==
    LET digitsizeDefault == getDigitSize(paletteDefault)
        passes == (Len(colors) + digitsizeDefault - 1) \div digitsizeDefault
        olength == (Len(colors) * 4) \div digitsizeDefault
        index(i) == Number(Slice(colors, (i - 1) * digitsizeDefault, i * digitsizeDefault))
    IN  IF \A i \in 1..passes : index(i) >= 0 /\ index(i) < Len(paletteDefault)
        THEN [thrown |-> FALSE, output |-> [j \in 1..olength |-> paletteDefault[index(((j - 1) \div 4) + 1) + 1][((j - 1) % 4) + 1]]]
        ELSE [thrown |-> TRUE, output |-> <<>>]

(***************************************************************************)
(* PixelRendr: spriteApplyFilter.  A filter is <<filterName, members>>,    *)
(* members being the pairs <<i, filter[1][i]>> in the order they were put  *)
(* into the Object.                                                        *)
(***************************************************************************)
\* colors.match(this.digitsplit): the groups of up to digitsize characters.
RECURSIVE DigitSplit(_, _)
DigitSplit(colors, digitsize) == IF colors = <<>> THEN <<>> ELSE <<Slice(colors, 0, digitsize)>> \o DigitSplit(Slice(colors, digitsize, Len(colors)), digitsize)

\* split.join("")
RECURSIVE JoinAll(_)
JoinAll(split) == IF split = <<>> THEN <<>> ELSE Head(split) \o JoinAll(Tail(split))

\* Whether a key is an array index as the language writes one: for-in
\* visits such keys first and in ascending order, then the others in the
\* order they were put in.
IsIndexKey(str) == str # <<>> /\ Number(str) # NaN /\ (Len(str) = 1 \/ str[1] # "0")

RECURSIVE SortIndexKeys(_)
SortIndexKeys(pairs) ==
    IF pairs = {} THEN <<>>
    ELSE LET least == CHOOSE pair \in pairs : \A other \in pairs : Number(pair[1]) <= Number(other[1])
         IN  <<least>> \o SortIndexKeys(pairs \ {least})

ForIn(members) ==
    SortIndexKeys({members[i] : i \in {j \in 1..Len(members) : IsIndexKey(members[j][1])}}) \o SelectSeq(members, LAMBDA pair : ~IsIndexKey(pair[1]))

arrayReplace(array, removed, inserted) == [i \in 1..Len(array) |-> IF array[i] = removed THEN inserted ELSE array[i]]

\* The for-in loop of spriteApplyFilter over the members given.
RECURSIVE spriteApplyFilterLoop(_, _)
spriteApplyFilterLoop(split, members) ==
    IF members = <<>> THEN split ELSE spriteApplyFilterLoop(arrayReplace(split, Head(members)[1], Head(members)[2]), Tail(members))

\* spriteApplyFilter(colors, key, attributes), given attributes.filter.
spriteApplyFilter(colors, filter, digitsizeDefault) ==
    IF filter[1] = "" THEN colors
    ELSE IF filter[1] = "palette" THEN JoinAll(spriteApplyFilterLoop(DigitSplit(colors, digitsizeDefault), ForIn(filter[2])))
    ELSE colors

(***************************************************************************)
(* PixelRendr: the encoding processor, after imageGetData.  data is the    *)
(* Uint8ClampedArray of an image, four values a pixel.                     *)
(***************************************************************************)
\* The for loop of arrayDifference, from position i (0-based) down.
RECURSIVE arrayDifferenceLoop(_, _, _, _)
arrayDifferenceLoop(a, b, i, sum) == IF i >= 0 THEN arrayDifferenceLoop(a, b, i - 1, sum + ToInt32(Abs(a[i + 1] - b[i + 1]))) ELSE sum

arrayDifference(a, b) == arrayDifferenceLoop(a, b, Len(a) - 1, 0)

\* The for loop of getClosestInPalette, from position i down; best.any is
\* whether bestDifference is still Infinity.
RECURSIVE getClosestInPaletteLoop(_, _, _, _)
getClosestInPaletteLoop(palette, rgba, i, best) ==
    IF i >= 0
    THEN LET difference == arrayDifference(palette[i + 1], rgba)
         IN  IF ~best.any \/ difference < best.bestDifference
             THEN getClosestInPaletteLoop(palette, rgba, i - 1, [any |-> TRUE, bestDifference |-> difference, bestIndex |-> i])
             ELSE getClosestInPaletteLoop(palette, rgba, i - 1, best)
    ELSE best.bestIndex

getClosestInPalette(palette, rgba) == getClosestInPaletteLoop(palette, rgba, Len(palette) - 1, [any |-> FALSE, bestDifference |-> 0, bestIndex |-> 0])

\* Object.keys(occurences): the indices counted, as strings; being array
\* indices they come in ascending order.
RECURSIVE Ascending(_)
Ascending(numbers) == IF numbers = {} THEN <<>> ELSE LET least == CHOOSE n \in numbers : \A other \in numbers : n <= other IN <<StringOfNumber(least)>> \o Ascending(numbers \ {least})

\* imageGetPixels(data): [pixels, occurences], of occurences its keys.
imageGetPixels(paletteDefault, data) ==
    LET pixels == [j \in 1..(Len(data) \div 4) |-> getClosestInPalette(paletteDefault, SubSeq(data, 4 * j - 3, 4 * j))]
    IN  <<pixels, Ascending({pixels[j] : j \in 1..Len(pixels)})>>

\* getValueIndices(palette)[String(pixel)]
getKeyValue(palette, pixel) == (CHOOSE i \in 1..Len(palette) : palette[i] = StringOfNumber(pixel)) - 1

\* imageMapPalette(information): [palette, numbers, digitsize]
imageMapPalette(information) ==
    LET pixels == information[1]
        palette == information[2]
    IN  <<palette, [j \in 1..Len(pixels) |-> getKeyValue(palette, pixels[j])], getDigitSize(palette)>>

makeSizedDigit(size, num) == makeDigit(num, size)

\* palette.map(makeSizedDigit).join(",")
RECURSIVE JoinCommas(_, _)
JoinCommas(palette, digitsize) ==
    IF palette = <<>> THEN <<>>
    ELSE IF Len(palette) = 1 THEN makeSizedDigit(digitsize, palette[1])
    ELSE makeSizedDigit(digitsize, palette[1]) \o <<",">> \o JoinCommas(Tail(palette), digitsize)

\* Where the inner while loop of imageCombinePixels leaves j.
RECURSIVE RunEnd(_, _, _)
RunEnd(numbers, current, j) == IF j < Len(numbers) /\ numbers[j + 1] = current THEN RunEnd(numbers, current, j + 1) ELSE j

\* The outer while loop of imageCombinePixels.
RECURSIVE imageCombinePixelsLoop(_, _, _, _, _)
imageCombinePixelsLoop(numbers, digitsize, threshold, i, output) ==
    IF i < Len(numbers)
    THEN LET current == numbers[i + 1]
             digit == makeDigit(StringOfNumber(current), digitsize)
             j == RunEnd(numbers, current, i + 1)
         IN  IF j - i > threshold
             THEN imageCombinePixelsLoop(numbers, digitsize, threshold, j, output \o <<"x">> \o digit \o StringOfNumber(j - i) \o <<",">>)
             ELSE imageCombinePixelsLoop(numbers, digitsize, threshold, j, output \o Repeat(digit, j - i))
    ELSE output

\* imageCombinePixels(information); Math.round(4 / digitsize) is the floor
\* of (8 + digitsize) / (2 * digitsize).
imageCombinePixels(information) ==
    LET palette == information[1]
        numbers == information[2]
        digitsize == information[3]
        threshold == Max(3, (8 + digitsize) \div (2 * digitsize))
    IN  imageCombinePixelsLoop(numbers, digitsize, threshold, 0, <<"p", "[">> \o JoinCommas(palette, digitsize) \o <<"]">>)

\* ProcessorEncode.process, from the data imageGetData gives; it reads no
\* cache.
encode(paletteDefault, data) == imageCombinePixels(imageMapPalette(imageGetPixels(paletteDefault, data)))

(***************************************************************************)
(* PixelRendr: the dimensions processor.  A Uint8ClampedArray is a         *)
(* sequence of numbers; attributes is a record of spriteWidth and          *)
(* spriteHeight.                                                           *)
(***************************************************************************)
\* new Uint8ClampedArray(length)
NewArray(length) == [i \in 1..length |-> 0]

\* array[index], and 0 where the array has no member: what a
\* Uint8ClampedArray stores when given undefined.
ReadU8(array, index) == IF index >= 0 /\ index < Len(array) THEN array[index + 1] ELSE 0

\* memcpyU8(source, destination, readloc, writeloc, writelength): the
\* destination afterwards.
memcpyU8(source, destination, readloc, writeloc, writelength) ==
    IF readloc < 0 \/ writeloc < 0 \/ writelength <= 0 \/ readloc >= Len(source) \/ writeloc >= Len(destination)
    THEN destination
    ELSE [i \in 1..Len(destination) |-> IF i - 1 >= writeloc /\ i - 1 < writeloc + writelength THEN ReadU8(source, readloc + (i - 1 - writeloc)) ELSE destination[i]]

\* The loops of spriteRepeatRows from pass n on; pass n has si = n \div scale
\* and sj = n % scale.
RECURSIVE spriteRepeatRowsLoop(_, _, _, _, _)
spriteRepeatRowsLoop(spriteArray, parsed, rowsize, heightscale, n) ==
    IF n \div scale < heightscale
    THEN spriteRepeatRowsLoop(spriteArray, memcpyU8(spriteArray, parsed, (n \div scale) * rowsize, n * rowsize, rowsize), rowsize, heightscale, n + 1)
    ELSE parsed

spriteRepeatRows(spriteArray, key, attributes) ==
    spriteRepeatRowsLoop(spriteArray, NewArray(Len(spriteArray) * scale), attributes.spriteWidth * 4, attributes.spriteHeight * scale, 0)

\* flipSpriteArrayHoriz: member p of the new array is in the row starting at
\* i, at pixel offset j and channel k.
flipSpriteArrayHoriz(spriteArray, attributes) ==
    LET rowsize == attributes.spriteWidth * 4
    IN  [q \in 1..Len(spriteArray) |->
            LET p == q - 1
                i == (p \div rowsize) * rowsize
                j == ((p - i) \div 4) * 4
                k == p % 4
            IN  ReadU8(spriteArray, i + rowsize - 4 - j + k)]

\* flipSpriteArrayVert: member p of the new array is in the row starting at
\* newloc.
flipSpriteArrayVert(spriteArray, attributes) ==
    LET rowsize == attributes.spriteWidth * 4
    IN  [q \in 1..Len(spriteArray) |->
            LET p == q - 1
                newloc == (p \div rowsize) * rowsize
            IN  ReadU8(spriteArray, Len(spriteArray) - rowsize - newloc + (p - newloc))]

flipSpriteArrayBytes(spriteArray) == [q \in 1..Len(spriteArray) |-> spriteArray[Len(spriteArray) + 1 - q]]

flipSpriteArrayBoth(spriteArray) ==
    [q \in 1..Len(spriteArray) |-> LET p == q - 1 IN ReadU8(spriteArray, Len(spriteArray) - 4 - (p \div 4) * 4 + (p % 4))]

\* key.indexOf(marker) !== -1
Contains(key, marker) == \E i \in 0..(Len(key) - Len(marker)) : Slice(key, i, i + Len(marker)) = marker

spriteFlipDimensions(spriteArray, key, attributes) ==
    IF Contains(key, flipHoriz)
    THEN IF Contains(key, flipVert) THEN flipSpriteArrayBoth(spriteArray) ELSE flipSpriteArrayHoriz(spriteArray, attributes)
    ELSE IF Contains(key, flipVert) THEN flipSpriteArrayVert(spriteArray, attributes)
    ELSE spriteArray

\* What the pipeline of ProcessorDims makes of a sprite.
ProcessorDimsPipeline(data, key, attributes) == spriteFlipDimensions(spriteRepeatRows(data, key, attributes), key, attributes)

\* ChangeLinr.process(data, key, attributes) of ProcessorDims: the result
\* and the cache afterwards.
process(cache, data, key, attributes) ==
    IF doUseCache /\ key \in DOMAIN cache
    THEN [result |-> cache[key], cache |-> cache]
    ELSE LET made == ProcessorDimsPipeline(data, key, attributes)
         IN  [result |-> made, cache |-> IF doMakeCache THEN [k \in DOMAIN cache \cup {key} |-> IF k = key THEN made ELSE cache[k]] ELSE cache]

\* decode(key, attributes) for a key that names a single sprite: the result
\* and both caches afterwards.
decode(r, key, attributes) ==
    LET found == get(r.BaseFiler, key)
        processed == process(r.ProcessorDims, r.sprites[found.result], key, attributes)
    IN  [result |-> processed.result, BaseFiler |-> [r.BaseFiler EXCEPT !.cache = found.cache], ProcessorDims |-> processed.cache]

(***************************************************************************)
(* QuadsKeepr: creating Quadrants.                                         *)
(***************************************************************************)
\* A new Quadrant at (l, t); the result is the world and the Quadrant's id.
createQuadrant(w, l, t) ==
    LET id == NewId(w)
        quadrant == [changed |-> TRUE, things |-> [g \in {groupNames[i] : i \in 1..Len(groupNames)} |-> <<>>], numthings |-> [g \in {groupNames[i] : i \in 1..Len(groupNames)} |-> 0], left |-> l, top |-> t, right |-> l + quadrantWidth, bottom |-> t + quadrantHeight]
    IN  [w |-> [w EXCEPT !.heap = (id :> quadrant) @@ @], quadrant |-> id]

RECURSIVE createQuadrantRowLoop(_, _, _, _, _)
createQuadrantRowLoop(w, l, t, i, quadrants) ==
    IF i < w.numCols
    THEN LET made == createQuadrant(w, l, t)
         IN  createQuadrantRowLoop(made.w, l + quadrantWidth, t, i + 1, Append(quadrants, made.quadrant))
    ELSE [w |-> w, quadrants |-> quadrants]

createQuadrantRow(w, l, t) ==
    LET made == createQuadrantRowLoop(w, l, t, 0, <<>>)
    IN  [w |-> made.w, row |-> [left |-> l, top |-> t, quadrants |-> made.quadrants]]

RECURSIVE createQuadrantColLoop(_, _, _, _, _)
createQuadrantColLoop(w, l, t, i, quadrants) ==
    IF i < w.numRows
    THEN LET made == createQuadrant(w, l, t)
         IN  createQuadrantColLoop(made.w, l, t + quadrantHeight, i + 1, Append(quadrants, made.quadrant))
    ELSE [w |-> w, quadrants |-> quadrants]

createQuadrantCol(w, l, t) ==
    LET made == createQuadrantColLoop(w, l, t, 0, <<>>)
    IN  [w |-> made.w, col |-> [left |-> l, top |-> t, quadrants |-> made.quadrants]]

\* array.push(x), array.unshift(x), array.pop(), array.shift() on the
\* quadrants of every container of a list.
PushEach(containers, ids) == [i \in 1..Len(containers) |-> [containers[i] EXCEPT !.quadrants = Append(@, ids[i])]]
UnshiftEach(containers, ids) == [i \in 1..Len(containers) |-> [containers[i] EXCEPT !.quadrants = <<ids[i]>> \o @]]
Pop(array) == IF Len(array) = 0 THEN array ELSE SubSeq(array, 1, Len(array) - 1)
Shift(array) == IF Len(array) = 0 THEN array ELSE Tail(array)
PopEach(containers) == [i \in 1..Len(containers) |-> [containers[i] EXCEPT !.quadrants = Pop(@)]]
ShiftEach(containers) == [i \in 1..Len(containers) |-> [containers[i] EXCEPT !.quadrants = Shift(@)]]

(***************************************************************************)
(* QuadsKeepr: adding and removing rows and columns.                       *)
(***************************************************************************)
pushQuadrantRow(w, callUpdate) ==
    LET made == createQuadrantRow(w, w.left, w.bottom)
        w1 == [made.w EXCEPT !.numRows = @ + 1, !.quadrantRows = Append(@, made.row), !.quadrantCols = PushEach(@, made.row.quadrants), !.bottom = @ + quadrantHeight]
    IN  IF callUpdate THEN onAdd(w1, "yInc", w1.bottom, w1.right, w1.bottom - quadrantHeight, w1.left) ELSE w1

pushQuadrantCol(w, callUpdate) ==
    LET made == createQuadrantCol(w, w.right, w.top)
        w1 == [made.w EXCEPT !.numCols = @ + 1, !.quadrantCols = Append(@, made.col), !.quadrantRows = PushEach(@, made.col.quadrants), !.right = @ + quadrantWidth]
    IN  IF callUpdate THEN onAdd(w1, "xInc", w1.top, w1.right - w1.offsetY, w1.bottom, w1.right - quadrantWidth - w1.offsetY) ELSE w1

popQuadrantRow(w, callUpdate) ==
    LET w1 == [w EXCEPT !.quadrantCols = PopEach(@), !.numRows = @ - 1, !.quadrantRows = Pop(@)]
        w2 == IF callUpdate THEN onRemove(w1, "yInc", w1.bottom, w1.right, w1.bottom - quadrantHeight, w1.left) ELSE w1
    IN  [w2 EXCEPT !.bottom = @ - quadrantHeight]

popQuadrantCol(w, callUpdate) ==
    LET w1 == [w EXCEPT !.quadrantRows = PopEach(@), !.numCols = @ - 1, !.quadrantCols = Pop(@)]
        w2 == IF callUpdate THEN onRemove(w1, "xDec", w1.top, w1.right - w1.offsetY, w1.bottom, w1.right - quadrantWidth - w1.offsetY) ELSE w1
    IN  [w2 EXCEPT !.right = @ - quadrantWidth]

unshiftQuadrantRow(w, callUpdate) ==
    LET made == createQuadrantRow(w, w.left, w.top - quadrantHeight)
        w1 == [made.w EXCEPT !.numRows = @ + 1, !.quadrantRows = <<made.row>> \o @, !.quadrantCols = UnshiftEach(@, made.row.quadrants), !.top = @ - quadrantHeight]
    IN  IF callUpdate THEN onAdd(w1, "yInc", w1.top, w1.right, w1.top + quadrantHeight, w1.left) ELSE w1

unshiftQuadrantCol(w, callUpdate) ==
    LET made == createQuadrantCol(w, w.left - quadrantWidth, w.top)
        w1 == [made.w EXCEPT !.numCols = @ + 1, !.quadrantCols = <<made.col>> \o @, !.quadrantRows = UnshiftEach(@, made.col.quadrants), !.left = @ - quadrantWidth]
    IN  IF callUpdate THEN onAdd(w1, "xInc", w1.top, w1.left, w1.bottom, w1.left + quadrantWidth) ELSE w1

\* The columns lose their first Quadrant, the row list loses its LAST row
\* container (quadrantRows.pop()).
shiftQuadrantRow(w, callUpdate) ==
    LET w1 == [w EXCEPT !.quadrantCols = ShiftEach(@), !.numRows = @ - 1, !.quadrantRows = Pop(@)]
        w2 == IF callUpdate THEN onRemove(w1, "yInc", w1.top, w1.right, w1.top + quadrantHeight, w1.left) ELSE w1
    IN  [w2 EXCEPT !.top = @ + quadrantHeight]

\* The rows lose their first Quadrant, the column list loses its LAST column
\* container (quadrantCols.pop()).
shiftQuadrantCol(w, callUpdate) ==
    LET w1 == [w EXCEPT !.quadrantRows = ShiftEach(@), !.numCols = @ - 1, !.quadrantCols = Pop(@)]
        w2 == IF callUpdate THEN onRemove(w1, "xInc", w1.top, w1.left + quadrantWidth, w1.bottom, w1.left) ELSE w1
    IN  [w2 EXCEPT !.left = @ + quadrantWidth]

(***************************************************************************)
(* QuadsKeepr: resetQuadrants, shiftQuadrants, adjustOffsets.              *)
(***************************************************************************)
\* The third loop of resetQuadrants: Quadrant k (row k \div numCols, column
\* k % numCols) is created and pushed into its row and its column.
RECURSIVE resetQuadrantsLoop(_, _)
resetQuadrantsLoop(w, k) ==
    IF k < w.numRows * w.numCols
    THEN LET i == k \div w.numCols
             j == k % w.numCols
             made == createQuadrant(w, startLeft + j * quadrantWidth, startTop + i * quadrantHeight)
         IN  resetQuadrantsLoop([made.w EXCEPT !.quadrantRows[i + 1].quadrants = Append(@, made.quadrant), !.quadrantCols[j + 1].quadrants = Append(@, made.quadrant)], k + 1)
    ELSE w

resetQuadrants(w) ==
    LET w1 == [w EXCEPT !.top = startTop, !.right = startLeft + quadrantWidth * w.numCols, !.bottom = startTop + quadrantHeight * w.numRows, !.left = startLeft, !.offsetX = 0, !.offsetY = 0, !.quadrantRows = [i \in 1..w.numRows |-> [left |-> startLeft, top |-> startTop + (i - 1) * quadrantHeight, quadrants |-> <<>>]], !.quadrantCols = [j \in 1..w.numCols |-> [left |-> startLeft + (j - 1) * quadrantWidth, top |-> startTop, quadrants |-> <<>>]]]
        w2 == resetQuadrantsLoop(Collect(w1), 0)
    IN  onAdd(w2, "xInc", w2.top, w2.right, w2.bottom, w2.left)

shiftQuadrant(quadrant, dx, dy) == [quadrant EXCEPT !.top = @ + dy, !.right = @ + dx, !.bottom = @ + dy, !.left = @ + dx, !.changed = TRUE]

\* while (-this.offsetX > this.quadrantWidth)
RECURSIVE adjustOffsetsXNeg(_)
adjustOffsetsXNeg(w) ==
    IF -w.offsetX > quadrantWidth
    THEN adjustOffsetsXNeg([pushQuadrantCol(shiftQuadrantCol(w, TRUE), TRUE) EXCEPT !.offsetX = @ + quadrantWidth])
    ELSE w

\* adjustOffsetsXPos, had its loop run already at an offset of one Quadrant.
RECURSIVE adjustOffsetsXPosAtWidth(_)
adjustOffsetsXPosAtWidth(w) ==
    IF w.offsetX >= quadrantWidth
    THEN adjustOffsetsXPosAtWidth([unshiftQuadrantCol(popQuadrantCol(w, TRUE), TRUE) EXCEPT !.offsetX = @ - quadrantWidth])
    ELSE w

\* adjustOffsetsXPos, had it been an if and not a while.
adjustOffsetsXPosOnce(w) ==
    IF w.offsetX > quadrantWidth
    THEN [unshiftQuadrantCol(popQuadrantCol(w, TRUE), TRUE) EXCEPT !.offsetX = @ - quadrantWidth]
    ELSE w

\* while (this.offsetX > this.quadrantWidth)
RECURSIVE adjustOffsetsXPos(_)
adjustOffsetsXPos(w) ==
    IF w.offsetX > quadrantWidth
    THEN adjustOffsetsXPos([unshiftQuadrantCol(popQuadrantCol(w, TRUE), TRUE) EXCEPT !.offsetX = @ - quadrantWidth])
    ELSE w

\* while (-this.offsetY > this.quadrantHeight): unshiftQuadrantRow, then
\* pushQuadrantRow.
RECURSIVE adjustOffsetsYNeg(_)
adjustOffsetsYNeg(w) ==
    IF -w.offsetY > quadrantHeight
    THEN adjustOffsetsYNeg([pushQuadrantRow(unshiftQuadrantRow(w, TRUE), TRUE) EXCEPT !.offsetY = @ + quadrantHeight])
    ELSE w

\* while (this.offsetY > this.quadrantHeight)
RECURSIVE adjustOffsetsYPos(_)
adjustOffsetsYPos(w) ==
    IF w.offsetY > quadrantHeight
    THEN adjustOffsetsYPos([unshiftQuadrantRow(popQuadrantRow(w, TRUE), TRUE) EXCEPT !.offsetY = @ - quadrantHeight])
    ELSE w

adjustOffsets(w) == adjustOffsetsYPos(adjustOffsetsYNeg(adjustOffsetsXPos(adjustOffsetsXNeg(w))))

\* The Quadrants shiftQuadrants moves: those at quadrantRows[row].quadrants[col]
\* for row < numRows and col < numCols.
ShiftedIds(w) == {w.quadrantRows[row].quadrants[col] : row \in 1..w.numRows, col \in 1..w.numCols}

shiftQuadrants(w, dxGiven, dyGiven) ==
    LET dx == ToInt32(dxGiven)
        dy == ToInt32(dyGiven)
        moved == ShiftedIds(w)
        w1 == [w EXCEPT !.offsetX = @ + dx, !.offsetY = @ + dy, !.top = @ + dy, !.right = @ + dx, !.bottom = @ + dy, !.left = @ + dx, !.quadrantRows = [row \in 1..Len(@) |-> IF row <= w.numRows THEN [@[row] EXCEPT !.left = @ + dx, !.top = @ + dy] ELSE @[row]], !.quadrantCols = [col \in 1..Len(@) |-> IF col <= w.numCols THEN [@[col] EXCEPT !.left = @ + dx, !.top = @ + dy] ELSE @[col]], !.heap = [id \in DOMAIN @ |-> IF id \in moved THEN shiftQuadrant(@[id], dx, dy) ELSE @[id]]]
    IN  adjustOffsets(w1)

(***************************************************************************)
(* QuadsKeepr: the Things' Quadrants.                                      *)
(***************************************************************************)
getTop(thing) == IF keyOffsetY THEN thing.top - Abs(thing.offsetY) ELSE thing.top
getRight(thing) == IF keyOffsetX THEN thing.right + Abs(thing.offsetX) ELSE thing.right
getBottom(thing) == IF keyOffsetX THEN thing.bottom + Abs(thing.offsetY) ELSE thing.bottom
getLeft(thing) == IF keyOffsetX THEN thing.left - Abs(thing.offsetX) ELSE thing.left

\* Math.floor(a / b) for b > 0.
Floor(a, b) == a \div b

findQuadrantRowStart(w, thing) == Max(Floor(getTop(thing) - w.top, quadrantHeight), 0)
findQuadrantRowEnd(w, thing) == Min(Floor(getBottom(thing) - w.top, quadrantHeight), w.numRows - 1)
findQuadrantColStart(w, thing) == Max(Floor(getLeft(thing) - w.left, quadrantWidth), 0)
findQuadrantColEnd(w, thing) == Min(Floor(getRight(thing) - w.left, quadrantWidth), w.numCols - 1)

\* array[index] = value, index counted from 0.
SetAt(array, index, value) == [i \in 1..Max(Len(array), index + 1) |-> IF i = index + 1 THEN value ELSE IF i <= Len(array) THEN array[i] ELSE Undefined]

markThingQuadrantsChanged(w, t) ==
    LET mine == {w.things[t].quadrants[i] : i \in 1..w.things[t].numquads}
    IN  [w EXCEPT !.heap = [id \in DOMAIN @ |-> IF id \in mine THEN [@[id] EXCEPT !.changed = TRUE] ELSE @[id]]]

setThingInQuadrant(w, t, quadrant, group) ==
    LET thing == w.things[t]
        q == w.heap[quadrant]
    IN  [w EXCEPT !.things[t].quadrants = SetAt(@, thing.numquads, quadrant), !.things[t].numquads = @ + 1, !.heap[quadrant].things[group] = SetAt(@, q.numthings[group], t), !.heap[quadrant].numthings[group] = @ + 1, !.heap[quadrant].changed = IF thing.changed THEN TRUE ELSE @]

\* The double loop of determineThingQuadrants, cell k of the range
\* rowStart..rowEnd x colStart..colEnd in row-major order.
RECURSIVE determineThingQuadrantsLoop(_, _, _, _, _, _, _, _)
determineThingQuadrantsLoop(w, t, group, rowStart, rowEnd, colStart, colEnd, k) ==
    LET width == colEnd - colStart + 1
        row == rowStart + (k \div width)
        col == colStart + (k % width)
    IN  IF width <= 0 \/ row > rowEnd
        THEN w
        ELSE determineThingQuadrantsLoop(setThingInQuadrant(w, t, w.quadrantRows[row + 1].quadrants[col + 1], group), t, group, rowStart, rowEnd, colStart, colEnd, k + 1)

\* The quadrants array of a Thing is only ever read below numquads, so it is
\* kept cut to numquads entries.
determineThingQuadrants(w, t) ==
    LET thing == w.things[t]
        group == thing.group
        rowStart == findQuadrantRowStart(w, thing)
        colStart == findQuadrantColStart(w, thing)
        rowEnd == findQuadrantRowEnd(w, thing)
        colEnd == findQuadrantColEnd(w, thing)
        w1 == IF thing.changed THEN markThingQuadrantsChanged(w, t) ELSE w
        w2 == [w1 EXCEPT !.things[t].numquads = 0, !.things[t].quadrants = <<>>]
        w3 == determineThingQuadrantsLoop(w2, t, group, rowStart, rowEnd, colStart, colEnd, 0)
    IN  [w3 EXCEPT !.things[t].changed = FALSE]

RECURSIVE forEachDetermine(_, _)
forEachDetermine(w, list) == IF list = <<>> THEN w ELSE forEachDetermine(determineThingQuadrants(w, Head(list)), Tail(list))

\* determineAllQuadrants, had it left every numthings as it was.
determineAllQuadrantsKeepCounts(w, group, list) == forEachDetermine(w, list)

determineAllQuadrants(w, group, list) ==
    LET cleared == ShiftedIds(w)
        w1 == [w EXCEPT !.heap = [id \in DOMAIN @ |-> IF id \in cleared THEN [@[id] EXCEPT !.numthings[group] = 0] ELSE @[id]]]
    IN  forEachDetermine(w1, list)

(***************************************************************************)
(* PixelDrawr: the quadrant-mode frame draw.  The canvas calls of a frame  *)
(* are collected, in order, in a list.                                     *)
(***************************************************************************)
drawrGetTop(thing) == IF keyOffsetY THEN thing.top + thing.offsetY ELSE thing.top
drawrGetRight(thing) == IF keyOffsetX THEN thing.right + thing.offsetX ELSE thing.right
drawrGetBottom(thing) == IF keyOffsetX THEN thing.bottom + thing.offsetY ELSE thing.bottom
drawrGetLeft(thing) == IF keyOffsetX THEN thing.left + thing.offsetX ELSE thing.left

\* drawThingOnQuadrant: the canvas calls it adds for Thing t on a Quadrant.
drawThingOnQuadrant(w, t, id) ==
    LET thing == w.things[t]
        quadrant == w.heap[id]
    IN  IF thing.hidden \/ drawrGetTop(thing) > quadrant.bottom \/ drawrGetRight(thing) < quadrant.left \/ drawrGetBottom(thing) < quadrant.top \/ drawrGetLeft(thing) > quadrant.right
        THEN <<>>
        ELSE <<[call |-> "drawThing", quadrant |-> id, thing |-> t, left |-> drawrGetLeft(thing) - quadrant.left, top |-> drawrGetTop(thing) - quadrant.top]>>

\* for (j = 0; j < group.length; j += 1) drawThingOnQuadrant(group[j], quadrant)
RECURSIVE drawGroup(_, _, _, _)
drawGroup(w, id, group, j) ==
    IF j < Len(group)
    THEN drawThingOnQuadrant(w, group[j + 1], id) \o drawGroup(w, id, group, j + 1)
    ELSE <<>>

\* for (i = groupNames.length - 1; i >= 0; i -= 1)
RECURSIVE drawGroups(_, _, _)
drawGroups(w, id, i) ==
    IF i >= 0
    THEN drawGroup(w, id, w.heap[id].things[groupNames[i + 1]], 0) \o drawGroups(w, id, i - 1)
    ELSE <<>>

\* refillQuadrant, had it left quadrant.changed as it was.
refillQuadrantKeepChanged(w, id) ==
    LET background == IF ~noRefill THEN <<[call |-> "drawBackground", quadrant |-> id, thing |-> Undefined, left |-> w.heap[id].left, top |-> w.heap[id].top]>> ELSE <<>>
    IN  [w |-> w, drawn |-> background \o drawGroups(w, id, Len(groupNames) - 1)]

\* refillQuadrant: the result is the world and the canvas calls made.
refillQuadrant(w, id) ==
    LET background == IF ~noRefill THEN <<[call |-> "drawBackground", quadrant |-> id, thing |-> Undefined, left |-> w.heap[id].left, top |-> w.heap[id].top]>> ELSE <<>>
    IN  [w |-> [w EXCEPT !.heap[id].changed = FALSE], drawn |-> background \o drawGroups(w, id, Len(groupNames) - 1)]

\* refillCondition, had it not read quadrant.changed.
refillConditionVisible(quadrant) == quadrant.top < MapScreenerHeight /\ quadrant.right > 0 /\ quadrant.bottom > 0 /\ quadrant.left < MapScreenerWidth

\* Whether refillQuadrants repaints a Quadrant.
refillCondition(quadrant) == quadrant.changed /\ quadrant.top < MapScreenerHeight /\ quadrant.right > 0 /\ quadrant.bottom > 0 /\ quadrant.left < MapScreenerWidth

RECURSIVE refillQuadrants(_, _, _, _)
refillQuadrants(w, calls0, quadrants, i) ==
    IF i < Len(quadrants)
    THEN LET id == quadrants[i + 1]
             quadrant == w.heap[id]
         IN  IF refillCondition(quadrant)
             THEN LET filled == refillQuadrant(w, id)
                  IN  refillQuadrants(filled.w, calls0 \o filled.drawn \o <<[call |-> "drawImage", quadrant |-> id, thing |-> Undefined, left |-> quadrant.left, top |-> quadrant.top]>>, quadrants, i + 1)
             ELSE refillQuadrants(w, calls0, quadrants, i + 1)
    ELSE [w |-> w, drawn |-> calls0]

RECURSIVE refillQuadrantGroupsLoop(_, _, _, _)
refillQuadrantGroupsLoop(w, calls0, groups, i) ==
    IF i < Len(groups)
    THEN LET filled == refillQuadrants(w, calls0, groups[i + 1].quadrants, 0)
         IN  refillQuadrantGroupsLoop(filled.w, filled.drawn, groups, i + 1)
    ELSE [w |-> w, drawn |-> calls0]

\* refillQuadrantGroups(groups) with frames the incremented frame counter.
refillQuadrantGroups(w, frames, groups) ==
    IF frames % framerateSkip # 0
    THEN [w |-> w, drawn |-> <<>>]
    ELSE refillQuadrantGroupsLoop(w, <<>>, groups, 0)

(***************************************************************************)
(* PixelDrawr: drawing a Thing on a canvas context.  A context is its      *)
(* globalAlpha, in thousandths, its translation, and the list of the       *)
(* rectangles painted on it, in the coordinates of the canvas.             *)
(***************************************************************************)
\* context.globalAlpha = 1
AlphaOne == 1000

\* context.globalAlpha = value; a value outside [0, 1] is ignored.
setGlobalAlpha(context, value) == IF value >= 0 /\ value <= AlphaOne THEN [context EXCEPT !.globalAlpha = value] ELSE context

translate(context, x, y) == [context EXCEPT !.translation = <<@[1] + x, @[2] + y>>]

fillRect(context, source, x, y, width, height) ==
    [context EXCEPT !.painted = Append(@, [fn |-> "fillRect", source |-> source, left |-> context.translation[1] + x, top |-> context.translation[2] + y, width |-> width, height |-> height, alpha |-> context.globalAlpha])]

drawImage(context, source, x, y, width, height) ==
    [context EXCEPT !.painted = Append(@, [fn |-> "drawImage", source |-> source, left |-> context.translation[1] + x, top |-> context.translation[2] + y, width |-> width, height |-> height, alpha |-> context.globalAlpha])]

\* drawPatternOnCanvas, had it left globalAlpha as it set it.
drawPatternOnCanvasKeepAlpha(context, source, left, top, width, height, opacity) ==
    translate(fillRect(translate(setGlobalAlpha(context, opacity), left, top), source, 0, 0, width, height), -left, -top)

drawPatternOnCanvas(context, source, left, top, width, height, opacity) ==
    setGlobalAlpha(translate(fillRect(translate(setGlobalAlpha(context, opacity), left, top), source, 0, 0, width, height), -left, -top), AlphaOne)

drawThingOnContextSingle(context, thing, left, top) ==
    IF thing.repeat
    THEN drawPatternOnCanvas(context, "canvas", left, top, thing.unitwidth, thing.unitheight, IF thing.opacity = 0 THEN AlphaOne ELSE thing.opacity)
    ELSE IF thing.opacity # AlphaOne
    THEN setGlobalAlpha(drawImage(setGlobalAlpha(context, thing.opacity), "canvas", left, top, thing.canvas.width * thing.scale, thing.canvas.height * thing.scale), AlphaOne)
    ELSE drawImage(context, "canvas", left, top, thing.canvas.width * thing.scale, thing.canvas.height * thing.scale)

\* The locals of drawThingOnContextMultiple, had widthdrawn and heightdrawn
\* been the width and height of the Thing.
drawMultipleStartFullSize(context, thing, left, top) ==
    [context |-> context, topreal |-> top, leftreal |-> left, rightreal |-> left + thing.unitwidth, bottomreal |-> top + thing.unitheight, widthreal |-> thing.unitwidth, heightreal |-> thing.unitheight, widthdrawn |-> thing.unitwidth, heightdrawn |-> thing.unitheight]

\* The locals of drawThingOnContextMultiple before its switch.
drawMultipleStart(context, thing, left, top) ==
    [context |-> context, topreal |-> top, leftreal |-> left, rightreal |-> left + thing.unitwidth, bottomreal |-> top + thing.unitheight, widthreal |-> thing.unitwidth, heightreal |-> thing.unitheight, widthdrawn |-> Min(thing.unitwidth, thing.spritewidthpixels), heightdrawn |-> Min(thing.unitheight, thing.spriteheightpixels)]

\* sprite.topheight ? sprite.topheight * this.unitsize : spriteheightpixels
Thickness(given, pixels) == IF given # 0 THEN given * unitsize ELSE pixels

\* case "vertical", had the top part not taken its height off heightreal.
drawMultipleVerticalTopFree(thing, st) ==
    LET bottomdiff == Thickness(thing.sprite.bottomheight, thing.spriteheightpixels)
        st1 == IF "bottom" \in thing.canvases.parts
               THEN [st EXCEPT !.context = drawPatternOnCanvas(@, "bottom", st.leftreal, st.bottomreal - bottomdiff, st.widthreal, st.heightdrawn, thing.opacity), !.bottomreal = @ - bottomdiff, !.heightreal = @ - bottomdiff]
               ELSE st
        topdiff == Thickness(thing.sprite.topheight, thing.spriteheightpixels)
    IN  IF "top" \in thing.canvases.parts
        THEN [st1 EXCEPT !.context = drawPatternOnCanvas(@, "top", st1.leftreal, st1.topreal, st1.widthreal, st1.heightdrawn, thing.opacity), !.topreal = @ + topdiff]
        ELSE st1

\* case "vertical"
drawMultipleVertical(thing, st) ==
    LET bottomdiff == Thickness(thing.sprite.bottomheight, thing.spriteheightpixels)
        st1 == IF "bottom" \in thing.canvases.parts
               THEN [st EXCEPT !.context = drawPatternOnCanvas(@, "bottom", st.leftreal, st.bottomreal - bottomdiff, st.widthreal, st.heightdrawn, thing.opacity), !.bottomreal = @ - bottomdiff, !.heightreal = @ - bottomdiff]
               ELSE st
        topdiff == Thickness(thing.sprite.topheight, thing.spriteheightpixels)
    IN  IF "top" \in thing.canvases.parts
        THEN [st1 EXCEPT !.context = drawPatternOnCanvas(@, "top", st1.leftreal, st1.topreal, st1.widthreal, st1.heightdrawn, thing.opacity), !.topreal = @ + topdiff, !.heightreal = @ - topdiff]
        ELSE st1

\* case "horizontal"
drawMultipleHorizontal(thing, st) ==
    LET leftdiff == Thickness(thing.sprite.leftwidth, thing.spritewidthpixels)
        st1 == IF "left" \in thing.canvases.parts
               THEN [st EXCEPT !.context = drawPatternOnCanvas(@, "left", st.leftreal, st.topreal, st.widthdrawn, st.heightreal, thing.opacity), !.leftreal = @ + leftdiff, !.widthreal = @ - leftdiff]
               ELSE st
        rightdiff == Thickness(thing.sprite.rightwidth, thing.spritewidthpixels)
    IN  IF "right" \in thing.canvases.parts
        THEN [st1 EXCEPT !.context = drawPatternOnCanvas(@, "right", st1.rightreal - rightdiff, st1.topreal, st1.widthdrawn, st1.heightreal, thing.opacity), !.rightreal = @ - rightdiff, !.widthreal = @ - rightdiff]
        ELSE st1

\* case "corners"
drawMultipleCorners(thing, st) ==
    LET opacity == thing.opacity
        topdiff == Thickness(thing.sprite.topheight, thing.spriteheightpixels)
        leftdiff == Thickness(thing.sprite.leftwidth, thing.spritewidthpixels)
        c1 == drawPatternOnCanvas(st.context, "topLeft", st.leftreal, st.topreal, st.widthdrawn, st.heightdrawn, opacity)
        c2 == drawPatternOnCanvas(c1, "left", st.leftreal, st.topreal + topdiff, st.widthdrawn, st.heightreal - topdiff * 2, opacity)
        c3 == drawPatternOnCanvas(c2, "bottomLeft", st.leftreal, st.bottomreal - topdiff, st.widthdrawn, st.heightdrawn, opacity)
        st1 == [st EXCEPT !.leftreal = @ + leftdiff, !.widthreal = @ - leftdiff]
        rightdiff == Thickness(thing.sprite.rightwidth, thing.spritewidthpixels)
        c4 == drawPatternOnCanvas(c3, "top", st1.leftreal, st1.topreal, st1.widthreal - rightdiff, st1.heightdrawn, opacity)
        c5 == drawPatternOnCanvas(c4, "topRight", st1.rightreal - rightdiff, st1.topreal, st1.widthdrawn, st1.heightdrawn, opacity)
        st2 == [st1 EXCEPT !.topreal = @ + topdiff, !.heightreal = @ - topdiff]
        bottomdiff == Thickness(thing.sprite.bottomheight, thing.spriteheightpixels)
        c6 == drawPatternOnCanvas(c5, "right", st2.rightreal - rightdiff, st2.topreal, st2.widthdrawn, st2.heightreal - bottomdiff, opacity)
        c7 == drawPatternOnCanvas(c6, "bottomRight", st2.rightreal - rightdiff, st2.bottomreal - bottomdiff, st2.widthdrawn, st2.heightdrawn, opacity)
        c8 == drawPatternOnCanvas(c7, "bottom", st2.leftreal, st2.bottomreal - bottomdiff, st2.widthreal - rightdiff, st2.heightdrawn, opacity)
    IN  [st2 EXCEPT !.context = c8, !.rightreal = @ - rightdiff, !.widthreal = @ - rightdiff, !.bottomreal = @ - bottomdiff, !.heightreal = @ - bottomdiff]

\* The middle canvas, if there's still room.
drawMultipleMiddle(thing, st) ==
    IF "middle" \in thing.canvases.parts /\ st.topreal < st.bottomreal /\ st.leftreal < st.rightreal
    THEN IF thing.sprite.middleStretch
         THEN setGlobalAlpha(drawImage(setGlobalAlpha(st.context, thing.opacity), "middle", st.leftreal, st.topreal, st.widthreal, st.heightreal), AlphaOne)
         ELSE drawPatternOnCanvas(st.context, "middle", st.leftreal, st.topreal, st.widthreal, st.heightreal, thing.opacity)
    ELSE st.context

drawThingOnContextMultiple(context, thing, left, top) ==
    LET st == drawMultipleStart(context, thing, left, top)
    IN  CASE thing.canvases.direction = "vertical" -> drawMultipleMiddle(thing, drawMultipleVertical(thing, st))
          [] thing.canvases.direction = "horizontal" -> drawMultipleMiddle(thing, drawMultipleHorizontal(thing, st))
          [] thing.canvases.direction = "corners" -> drawMultipleMiddle(thing, drawMultipleCorners(thing, st))
          [] OTHER -> drawMultipleMiddle(thing, st)

\* drawThingOnContext(context, thing), for a Thing that has had its sprite set.
drawThingOnContext(context, thing) ==
    IF thing.hidden \/ thing.opacity < epsilon \/ thing.height < 1 \/ thing.width < 1 \/ drawrGetTop(thing) > MapScreenerHeight \/ drawrGetRight(thing) < 0 \/ drawrGetBottom(thing) < 0 \/ drawrGetLeft(thing) > MapScreenerWidth
    THEN context
    ELSE IF thing.canvas.width > 0
    THEN drawThingOnContextSingle(context, thing, drawrGetLeft(thing), drawrGetTop(thing))
    ELSE drawThingOnContextMultiple(context, thing, drawrGetLeft(thing), drawrGetTop(thing))

\* drawThingOnQuadrant(thing, quadrant), on the context of the Quadrant.
drawThingOnQuadrantContext(thing, quadrant) ==
    IF thing.hidden \/ drawrGetTop(thing) > quadrant.bottom \/ drawrGetRight(thing) < quadrant.left \/ drawrGetBottom(thing) < quadrant.top \/ drawrGetLeft(thing) > quadrant.right \/ thing.opacity < epsilon
    THEN quadrant.context
    ELSE IF thing.numSprites = 1
    THEN drawThingOnContextSingle(quadrant.context, thing, drawrGetLeft(thing) - quadrant.left, drawrGetTop(thing) - quadrant.top)
    ELSE drawThingOnContextMultiple(quadrant.context, thing, drawrGetLeft(thing) - quadrant.left, drawrGetTop(thing) - quadrant.top)

(***************************************************************************)
(* The state machine of the grid and its renderer.                         *)
(***************************************************************************)
\* The bounds of the Quadrants, row by row, with the row and column counts.
Bounds(w) == [numRows |-> w.numRows, numCols |-> w.numCols, cells |-> [r \in 1..Len(w.quadrantRows) |-> [c \in 1..Len(w.quadrantRows[r].quadrants) |-> LET q == w.heap[w.quadrantRows[r].quadrants[c]] IN <<q.top, q.right, q.bottom, q.left>>]]]

\* The record of the last operation: its name and arguments; for a shift the
\* bounds and offsets before it; and, when a shift gives the opposite deltas
\* of the shift right before it (returned), the bounds and offsets before
\* that first shift (origin).
Op(name, t, g) == [op |-> name, thing |-> t, group |-> g, given |-> <<>>, after |-> Undefined, dx |-> 0, dy |-> 0, before |-> <<>>, offsetX |-> 0, offsetY |-> 0, returned |-> FALSE, origin |-> <<>>, originOffsetX |-> 0, originOffsetY |-> 0, skipped |-> FALSE, changedBefore |-> {}]

ThingsInit ==
    [t \in ThingNames |->
        IF t = "a"
        THEN [top |-> 5, right |-> 15, bottom |-> 15, left |-> 5, group |-> "Character", changed |-> TRUE, numquads |-> 0, quadrants |-> <<>>, offsetX |-> 0, offsetY |-> 0, hidden |-> FALSE]
        ELSE [top |-> 20, right |-> 30, bottom |-> 30, left |-> 20, group |-> "Solid", changed |-> TRUE, numquads |-> 0, quadrants |-> <<>>, offsetX |-> 0, offsetY |-> 0, hidden |-> FALSE]]

\* new QuadsKeepr(settings), new PixelDrawr(settings), then resetQuadrants().
Constructed == [numRows |-> settingsNumRows, numCols |-> settingsNumCols, top |-> 0, right |-> 0, bottom |-> 0, left |-> 0, offsetX |-> 0, offsetY |-> 0, quadrantRows |-> <<>>, quadrantCols |-> <<>>, heap |-> <<>>, things |-> ThingsInit, calls |-> <<>>]

(***************************************************************************)
(* Sprite encodings.  An encoding is a sequence of parts: a literal colour *)
(* digit, a run x<d><n>, a reset p, or a palette declaration p[i0,...,ik]. *)
(***************************************************************************)
Literal(d) == [kind |-> "literal", d |-> d, n |-> 1, entries |-> <<>>]
Run(d, n) == [kind |-> "run", d |-> d, n |-> n, entries |-> <<>>]
Reset == [kind |-> "reset", d |-> 0, n |-> 0, entries |-> <<>>]
Declare(entries) == [kind |-> "declare", d |-> 0, n |-> 0, entries |-> entries]

Parts == {Literal(0), Literal(1), Literal(2), Literal(10), Run(0, 2), Run(1, 3), Run(0, 22), Run(10, 1), Reset, Declare(<<2, 1>>), Declare(<<1>>), Declare(<<10, 0>>), Declare(<<0, 1, 2, 0, 1, 2, 0, 1, 2, 1>>)}

\* The palette of the sprite example, and one whose digit size is 2.
Palette3 == <<<<0, 0, 0, 0>>, <<255, 0, 0, 255>>, <<0, 255, 0, 255>>>>
Palette11 == [i \in 1..11 |-> <<20 * i, 20 * i, 20 * i, 255>>]
Palettes == {Palette3, Palette11}

\* The number of colours a digit can name after the parts given, and the
\* number of characters it is written with.
ActiveLength(paletteDefault, parts) ==
    LET declared == {i \in 1..Len(parts) : parts[i].kind \in {"reset", "declare"}}
        g == IF declared = {} THEN 0 ELSE CHOOSE i \in declared : \A j \in declared : j <= i
    IN  IF g = 0 \/ parts[g].kind = "reset" THEN Len(paletteDefault) ELSE Len(parts[g].entries)

ActiveDigitSize(paletteDefault, parts) ==
    LET declared == {i \in 1..Len(parts) : parts[i].kind \in {"reset", "declare"}}
        g == IF declared = {} THEN 0 ELSE CHOOSE i \in declared : \A j \in declared : j <= i
    IN  IF g = 0 \/ parts[g].kind = "reset" THEN getDigitSize(paletteDefault) ELSE 1

\* Every digit names a colour of the active palette and fits its digit
\* size, and every declared entry names a colour of the default palette.
WellFormed(paletteDefault, parts) ==
    \A i \in 1..Len(parts) :
        LET before == SubSeq(parts, 1, i - 1)
        IN  /\ parts[i].kind \in {"literal", "run"} =>
                /\ parts[i].d < ActiveLength(paletteDefault, before)
                /\ Len(StringOfNumber(parts[i].d)) <= ActiveDigitSize(paletteDefault, before)
            /\ parts[i].kind = "declare" => \A j \in 1..Len(parts[i].entries) : parts[i].entries[j] < Len(paletteDefault)

RECURSIVE Join(_)
Join(numbers) == IF numbers = <<>> THEN <<>> ELSE IF Len(numbers) = 1 THEN StringOfNumber(numbers[1]) ELSE StringOfNumber(numbers[1]) \o <<",">> \o Join(Tail(numbers))

\* The characters of one part, written with the given digit size.
RenderPart(part, digitsize) ==
    CASE part.kind = "literal" -> makeDigit(StringOfNumber(part.d), digitsize)
      [] part.kind = "run" -> <<"x">> \o makeDigit(StringOfNumber(part.d), digitsize) \o StringOfNumber(part.n) \o <<",">>
      [] part.kind = "reset" -> <<"p">>
      [] OTHER -> <<"p", "[">> \o Join(part.entries) \o <<"]">>

RECURSIVE Render(_, _, _)
Render(paletteDefault, parts, upto) ==
    IF upto = 0 THEN <<>> ELSE Render(paletteDefault, parts, upto - 1) \o RenderPart(parts[upto], ActiveDigitSize(paletteDefault, SubSeq(parts, 1, upto - 1)))

Encode(paletteDefault, parts) == Render(paletteDefault, parts, Len(parts))

\* The encoding with every run written out as its digit repeated.
RECURSIVE Expand(_)
Expand(parts) ==
    IF parts = <<>> THEN <<>>
    ELSE IF Head(parts).kind = "run" THEN [i \in 1..Head(parts).n |-> Literal(Head(parts).d)] \o Expand(Tail(parts))
    ELSE <<Head(parts)>> \o Expand(Tail(parts))

RECURSIVE SeqsUpTo(_, _)
SeqsUpTo(S, n) == IF n = 0 THEN {<<>>} ELSE LET shorter == SeqsUpTo(S, n - 1) IN shorter \cup {Append(q, x) : q \in {r \in shorter : Len(r) = n - 1}, x \in S}

\* A call of spriteUnravel: the parts its argument was written from, its
\* locals now (st) and before the last pass of its loop (prev), and the
\* number of passes made.
Unravelling(paletteDefault, parts) ==
    LET st == spriteUnravelStart(paletteDefault, Encode(paletteDefault, parts))
    IN  [parts |-> parts, st |-> st, prev |-> st, passes |-> 0]

SpriteIdle == Unravelling(Palette3, <<>>)

(***************************************************************************)
(* Libraries and keys for a StringFilr.                                    *)
(***************************************************************************)
\* The keys of a library are Strings of one character here.
Tokens == {<<"a">>, <<"b">>, <<"n">>}

\* The trees of at most two levels whose keys are tokens; what is held at
\* "b" has no keys.
Paths == {<<x>> : x \in Tokens} \cup {<<x, y>> : x \in Tokens \ {<<"b">>}, y \in Tokens}
Libraries == {library \in SUBSET Paths : \A path \in library : Len(path) > 1 => SubSeq(path, 1, Len(path) - 1) \in library}

\* The tokens given joined by single spaces.
RECURSIVE JoinTokens(_)
JoinTokens(tokens) == IF tokens = <<>> THEN <<>> ELSE IF Len(tokens) = 1 THEN tokens[1] ELSE tokens[1] \o <<" ">> \o JoinTokens(Tail(tokens))

\* The orders of the non-empty sets of tokens.
TokenOrders == {tokens \in SeqsUpTo(Tokens, Cardinality(Tokens)) : tokens # <<>> /\ \A i \in 1..Len(tokens), j \in 1..Len(tokens) : tokens[i] = tokens[j] => i = j}
KeyStrings == {JoinTokens(tokens) : tokens \in TokenOrders}

\* Those keys, and one that has the normal token twice.
GetKeys == KeyStrings \cup {<<"n", "n", " ", "a">>}

\* Those libraries, and each of them with a key "undefined" that holds an
\* Object of one key.
StrictLibraries == Libraries \cup {library \cup {<<UndefinedChars>>, <<UndefinedChars, x>>} : library \in Libraries, x \in {normal, <<"a">>}}

\* A StringFilr as constructed, and before any get.
StringFilr(library) == [library |-> library, cache |-> <<>>, keyRaw |-> <<>>, result |-> <<>>, gets |-> 0]

FilrIdle == StringFilr({})

(***************************************************************************)
(* Sprites, keys and attributes for decode.                                *)
(***************************************************************************)
\* Two sprites of four pixels; the members of pixel i are 10 * i + channel.
SpriteA == <<11, 12, 13, 14, 21, 22, 23, 24, 31, 32, 33, 34, 41, 42, 43, 44>>
SpriteB == <<51, 52, 53, 54, 61, 62, 63, 64, 71, 72, 73, 74, 81, 82, 83, 84>>
Sprites == (<<<<"a">>>> :> SpriteA) @@ (<<<<"b">>>> :> SpriteB)

DecodeKeys == {<<"a">>, <<"b">>, <<"a", " ", "h">>, <<"a", " ", "v">>, <<"a", " ", "h", " ", "v">>, <<"b", " ", "h">>}
Attributes == {[spriteWidth |-> 2, spriteHeight |-> 2], [spriteWidth |-> 4, spriteHeight |-> 1], [spriteWidth |-> 1, spriteHeight |-> 4]}

\* A PixelRendr as constructed with the sprites given, before any decode.
PixelRendr(sprites) ==
    [sprites |-> sprites, BaseFiler |-> StringFilr(DOMAIN sprites), ProcessorDims |-> <<>>, key |-> <<>>, attributes |-> [spriteWidth |-> 0, spriteHeight |-> 0], result |-> <<>>, decodes |-> 0, call |-> [name |-> Undefined]]

RendrIdle == PixelRendr(Sprites)

(***************************************************************************)
(* Unravelled sprites and filters for spriteApplyFilter.                   *)
(***************************************************************************)
\* Digit groups of a default palette: all three of Palette3, three of the
\* eleven of Palette11.
Groups(paletteDefault) == IF paletteDefault = Palette3 THEN {<<"0">>, <<"1">>, <<"2">>} ELSE {<<"0", "0">>, <<"0", "1">>, <<"1", "0">>}

\* The filters that replace up to MaxFilter groups, one without a name and
\* one of a name spriteApplyFilter does not know.
FilterMembers(paletteDefault) ==
    {members \in SeqsUpTo(Groups(paletteDefault) \X Groups(paletteDefault), MaxFilter) : \A i \in 1..Len(members), j \in 1..Len(members) : members[i][1] = members[j][1] => i = j}
Filters(paletteDefault) == {<<"", <<>>>>, <<"other", <<>>>>} \cup {<<"palette", members>> : members \in FilterMembers(paletteDefault)}

\* The unravelled sprites of up to MaxPixels pixels.
Unravelleds(paletteDefault) == {JoinAll(split) : split \in SeqsUpTo(Groups(paletteDefault), MaxPixels)}

(***************************************************************************)
(* Images for the encoding processor.                                      *)
(***************************************************************************)
\* Pixels of images: members of the default palette and values near them.
Pixels(paletteDefault) ==
    IF paletteDefault = Palette3 THEN {Palette3[1], Palette3[2], Palette3[3], <<250, 5, 0, 255>>}
    ELSE {Palette11[1], Palette11[11], <<25, 25, 25, 255>>}

\* Images: every one of up to MaxPixels pixels, those of one pixel a number
\* of times, and those that have the first so many members of the palette.
Images(paletteDefault) ==
    (SeqsUpTo(Pixels(paletteDefault), MaxPixels) \ {<<>>})
    \cup {[j \in 1..n |-> pixel] : n \in 1..(MaxPixels + 4), pixel \in Pixels(paletteDefault)}
    \cup {SubSeq(paletteDefault, 1, n) : n \in 1..Len(paletteDefault)}

\* Palettes of up to MaxPixels + 1 colours and the pixels looked up in them
\* by getClosestInPalette; some pixels are as far from one colour as from
\* another.
CloseColours == {<<0, 0, 0, 0>>, <<2, 0, 0, 0>>, <<0, 2, 0, 0>>, <<4, 0, 0, 0>>}
ClosePalettes == SeqsUpTo(CloseColours, MaxPixels + 1) \ {<<>>}
ClosePixels == {<<0, 0, 0, 0>>, <<1, 0, 0, 0>>, <<1, 1, 0, 0>>, <<3, 0, 0, 0>>}

(***************************************************************************)
(* Things to draw on a context.                                            *)
(***************************************************************************)
\* Unit widths and heights of Things, none smaller than two borders.
Sizes == {2 * MaxBorder, 2 * MaxBorder + 1}

\* A shown Thing at left 2 and top 3 with one canvas of its own size.
DrawnThing(unitwidth, unitheight) ==
    [hidden |-> FALSE, opacity |-> AlphaOne, repeat |-> FALSE, numSprites |-> 1, top |-> 3, left |-> 2, right |-> 2 + unitwidth, bottom |-> 3 + unitheight, width |-> unitwidth \div unitsize, height |-> unitheight \div unitsize, unitwidth |-> unitwidth, unitheight |-> unitheight, scale |-> 1, spritewidthpixels |-> unitwidth, spriteheightpixels |-> unitheight, canvas |-> [width |-> unitwidth, height |-> unitheight], sprite |-> [topheight |-> 0, rightwidth |-> 0, bottomheight |-> 0, leftwidth |-> 0, middleStretch |-> FALSE], canvases |-> [direction |-> Undefined, parts |-> {}]]

\* A Thing of a SpriteMultiple: its canvas has no width.
MultipleThing(unitwidth, unitheight, direction, parts, spriteGiven, spritewidthpixels, spriteheightpixels, opacity) ==
    [DrawnThing(unitwidth, unitheight) EXCEPT !.numSprites = Cardinality(parts), !.canvas = [width |-> 0, height |-> 0], !.canvases = [direction |-> direction, parts |-> parts], !.sprite = spriteGiven, !.spritewidthpixels = spritewidthpixels, !.spriteheightpixels = spriteheightpixels, !.opacity = opacity]

Opacities == {5, 500, AlphaOne}

SingleThings ==
    {[DrawnThing(size, size) EXCEPT !.hidden = hidden, !.opacity = opacity, !.repeat = repeat] : size \in Sizes, hidden \in BOOLEAN, opacity \in Opacities, repeat \in BOOLEAN}

\* A border thickness of 0 is one the sprite does not give.
VerticalThings ==
    {MultipleThing(2 * MaxBorder, unitheight, "vertical", parts, [topheight |-> t, rightwidth |-> 0, bottomheight |-> b, leftwidth |-> 0, middleStretch |-> stretch], 2 * MaxBorder, pixels, opacity) :
        unitheight \in Sizes, parts \in {{"top", "bottom", "middle"}, {"top", "middle"}, {"bottom", "middle"}, {"top", "bottom"}}, t \in 0..MaxBorder, b \in 0..MaxBorder, stretch \in BOOLEAN, pixels \in 1..MaxBorder, opacity \in {500, AlphaOne}}

HorizontalThings ==
    {MultipleThing(unitwidth, 2 * MaxBorder, "horizontal", parts, [topheight |-> 0, rightwidth |-> r, bottomheight |-> 0, leftwidth |-> l, middleStretch |-> stretch], pixels, 2 * MaxBorder, opacity) :
        unitwidth \in Sizes, parts \in {{"left", "right", "middle"}, {"left", "middle"}, {"right", "middle"}, {"left", "right"}}, l \in 0..MaxBorder, r \in 0..MaxBorder, stretch \in BOOLEAN, pixels \in 1..MaxBorder, opacity \in {500, AlphaOne}}

CornerParts == {"topLeft", "top", "topRight", "right", "bottomRight", "bottom", "bottomLeft", "left", "middle"}

CornersThings ==
    {MultipleThing(size, size, "corners", CornerParts, [topheight |-> t, rightwidth |-> r, bottomheight |-> b, leftwidth |-> l, middleStretch |-> stretch], widthpixels, heightpixels, 500) :
        size \in Sizes, t \in 1..MaxBorder, r \in 1..MaxBorder, b \in 1..MaxBorder, l \in 1..MaxBorder, stretch \in BOOLEAN, widthpixels \in 1..MaxBorder, heightpixels \in 1..MaxBorder}

\* A context nothing has been drawn on.
NewContext == [globalAlpha |-> AlphaOne, translation |-> <<0, 0>>, painted |-> <<>>]

\* The Quadrant the Things are drawn on.
DrawnQuadrant == [top |-> 1, right |-> 11, bottom |-> 11, left |-> 1, context |-> NewContext]

CanvasIdle == [called |-> Undefined]

(***************************************************************************)
(* StatsHoldr, with one StatsValue that holds a Number.  A modularity of 0 *)
(* is no modularity; no callbacks or triggers are given.                   *)
(***************************************************************************)
\* new StatsValue(...) with a minimum and a maximum.  given is what the
\* last call stored before it called update.
StatsValue(value, minimum, maximum, modularity) ==
    [value |-> value, minimum |-> minimum, maximum |-> maximum, modularity |-> modularity, called |-> Undefined, given |-> value]

StatsIdle == StatsValue(0, 0, 1, 0)

RECURSIVE checkModularity(_)
checkModularity(v) ==
    IF v.modularity = 0 THEN v
    ELSE IF v.value >= v.modularity THEN checkModularity([v EXCEPT !.value = Max(0, v.value - v.modularity)])
    ELSE v

\* StatsValue.prototype.update: the second comparison is <= as well.
update(v) ==
    LET bounded == IF v.value <= v.minimum THEN [v EXCEPT !.value = v.minimum]
                   ELSE IF v.value <= v.maximum THEN [v EXCEPT !.value = v.maximum]
                   ELSE v
    IN  IF bounded.modularity # 0 THEN checkModularity(bounded) ELSE bounded

\* The StatsValue with a value stored by the named call, before its update.
Stored(v, name, value) == [v EXCEPT !.called = name, !.given = value, !.value = value]

set(v, value) == update(Stored(v, "set", value))

\* increase(key, amount); increase(key) has amount 1.
increase(v, amount) == update(Stored(v, "increase", v.value + amount))

decrease(v, amount) == update(Stored(v, "decrease", v.value - amount))

toggle(v) == update(Stored(v, "toggle", IF v.value # 0 THEN 0 ELSE 1))


(***************************************************************************)
(* MapsHandlr: spawning the PreThings of the current area.  A PreThing is  *)
(* known by its place in prethings; the Arrays of a group hold the places. *)
(***************************************************************************)
Directions == {"xInc", "xDec", "yInc", "yDec"}

\* The names of the groups, in the order for (name in this.prethings) takes.
PreThingGroups == <<"Character", "Solid">>

\* new PreThing(thing, reference, ObjectMaker).
PreThing(group, x, y, width, height) ==
    [group |-> group, spawned |-> FALSE, left |-> x, top |-> y, right |-> x + width, bottom |-> y + height]

sortPreThingsXInc(a, b) == IF a.left = b.left THEN a.top - b.top ELSE a.left - b.left
sortPreThingsXDec(a, b) == IF b.right = a.right THEN b.bottom - a.bottom ELSE b.right - a.right
sortPreThingsYInc(a, b) == IF a.top = b.top THEN a.left - b.left ELSE a.top - b.top
sortPreThingsYDec(a, b) == IF b.bottom = a.bottom THEN b.right - a.right ELSE b.bottom - a.bottom

sorter(direction, a, b) ==
    CASE direction = "xInc" -> sortPreThingsXInc(a, b)
      [] direction = "xDec" -> sortPreThingsXDec(a, b)
      [] direction = "yInc" -> sortPreThingsYInc(a, b)
      [] direction = "yDec" -> sortPreThingsYDec(a, b)

\* copy.sort(sorter): each place is put after the places before it in the
\* Array that the sorter does not put after it.
RECURSIVE getArraySortedLoop(_, _, _, _)
getArraySortedLoop(prethings, direction, children, copy) ==
    IF children = <<>> THEN copy
    ELSE LET element == Head(children)
             before == {i \in 1..Len(copy) : sorter(direction, prethings[copy[i]], prethings[element]) <= 0}
             lower == IF before = {} THEN 0 ELSE CHOOSE i \in before : \A j \in before : j <= i
         IN  getArraySortedLoop(prethings, direction, Tail(children), SubSeq(copy, 1, lower) \o <<element>> \o SubSeq(copy, lower + 1, Len(copy)))

getArraySorted(prethings, direction, children) == getArraySortedLoop(prethings, direction, children, <<>>)

\* The places of the PreThings of a group, in the order they were made.
RECURSIVE Children(_, _, _)
Children(prethings, name, i) ==
    IF i > Len(prethings) THEN <<>>
    ELSE (IF prethings[i].group = name THEN <<i>> ELSE <<>>) \o Children(prethings, name, i + 1)

processPreThingsArrays(prethings) ==
    [name \in {PreThingGroups[i] : i \in 1..Len(PreThingGroups)} |-> [direction \in Directions |-> getArraySorted(prethings, direction, Children(prethings, name, 1))]]

directionKeys(direction) ==
    CASE direction = "xInc" -> "left"
      [] direction = "xDec" -> "right"
      [] direction = "yInc" -> "top"
      [] direction = "yDec" -> "bottom"

directionOpposites(direction) ==
    CASE direction = "xInc" -> "xDec"
      [] direction = "xDec" -> "xInc"
      [] direction = "yInc" -> "yDec"
      [] direction = "yDec" -> "yInc"

\* box is [top, right, bottom, left].
getDirectionEnd(directionKey, box) == box[directionKey]

\* The index, from 0, of the first PreThing of the group at or after the
\* end; group.length when there is none.
findPreThingsSpawnStart(prethings, direction, group, box) ==
    LET directionKey == directionKeys(direction)
        directionEnd == getDirectionEnd(directionKey, box)
        found == {i \in 0..(Len(group) - 1) : prethings[group[i + 1]][directionKey] >= directionEnd}
    IN  IF found = {} THEN Len(group) ELSE CHOOSE i \in found : \A j \in found : i <= j

\* The index, from 0, of the last PreThing of the group at or before the
\* opposite end; -1 when there is none.
findPreThingsSpawnEnd(prethings, direction, group, box) ==
    LET directionKey == directionKeys(direction)
        directionKeyOpposite == directionKeys(directionOpposites(direction))
        directionEnd == getDirectionEnd(directionKeyOpposite, box)
        found == {i \in 0..(Len(group) - 1) : prethings[group[i + 1]][directionKey] <= directionEnd}
    IN  IF found = {} THEN -1 ELSE CHOOSE i \in found : \A j \in found : j <= i

\* The body of the loop of applySpawnAction over i: unconditionally.
applySpawnActionAlways(m, status, place) ==
    [m EXCEPT !.prethings[place].spawned = status, !.calls = Append(@, <<status, place>>), !.history[place] = Append(@, status)]

\* The body of the loop of applySpawnAction over i.
applySpawnActionOn(m, status, place) ==
    IF m.prethings[place].spawned # status
    THEN [m EXCEPT !.prethings[place].spawned = status, !.calls = Append(@, <<status, place>>), !.history[place] = Append(@, status)]
    ELSE m

RECURSIVE applySpawnActionRange(_, _, _, _, _)
applySpawnActionRange(m, status, group, i, end) ==
    IF i > end THEN m
    ELSE applySpawnActionRange(applySpawnActionOn(m, status, group[i + 1]), status, group, i + 1, end)

RECURSIVE applySpawnActionGroups(_, _, _, _, _)
applySpawnActionGroups(m, status, direction, box, n) ==
    IF n > Len(PreThingGroups) THEN m
    ELSE LET group == processPreThingsArrays(m.prethings)[PreThingGroups[n]][direction]
             start == findPreThingsSpawnStart(m.prethings, direction, group, box)
             end == findPreThingsSpawnEnd(m.prethings, direction, group, box)
         IN  IF Len(group) = 0
             THEN applySpawnActionGroups(m, status, direction, box, n + 1)
             ELSE applySpawnActionGroups(applySpawnActionRange(m, status, group, start, end), status, direction, box, n + 1)

applySpawnAction(m, status, direction, box) == applySpawnActionGroups(m, status, direction, box, 1)

spawnMap(m, direction, box) == IF m.onSpawn THEN applySpawnAction(m, TRUE, direction, box) ELSE m

unspawnMap(m, direction, box) == IF m.onUnspawn THEN applySpawnAction(m, FALSE, direction, box) ELSE m

\* A MapsHandlr whose current area has these PreThings.  calls are the
\* callbacks of the last operation (TRUE for onSpawn, FALSE for onUnspawn)
\* with the place of their PreThing, history the callbacks made on each
\* PreThing, before the spawned flags as the last operation found them.
NoBox == [top |-> 0, right |-> 0, bottom |-> 0, left |-> 0]
MapsHandlr(prethings, onSpawn, onUnspawn) ==
    [prethings |-> prethings, onSpawn |-> onSpawn, onUnspawn |-> onUnspawn, called |-> Undefined, direction |-> "xInc", box |-> NoBox, calls |-> <<>>, history |-> [i \in 1..Len(prethings) |-> <<>>], before |-> [i \in 1..Len(prethings) |-> FALSE], spawns |-> 0]

MapsIdle == MapsHandlr(<<>>, FALSE, FALSE)

\* The MapsHandlr as an operation finds it.
Spawning(m, name, direction, box) ==
    [m EXCEPT !.called = name, !.direction = direction, !.box = box, !.calls = <<>>, !.before = [i \in 1..Len(m.prethings) |-> m.prethings[i].spawned], !.spawns = @ + 1]

\* The areas: three PreThings, of different sizes, in two groups.
Areas ==
    {<<PreThing("Solid", 0, 8, 32, 4), PreThing("Character", 4, 0, 4, 4), PreThing("Character", 20, 4, 8, 4)>>,
     <<PreThing("Character", 0, 0, 12, 12), PreThing("Character", 16, 0, 4, 4), PreThing("Solid", 28, 8, 4, 4)>>}

\* The bounding boxes given.
Boxes ==
    {[top |-> 0, right |-> 16, bottom |-> 12, left |-> 0],
     [top |-> 0, right |-> 32, bottom |-> 12, left |-> 16],
     [top |-> 0, right |-> 32, bottom |-> 4, left |-> 0],
     [top |-> 0, right |-> 10, bottom |-> 6, left |-> 6]}


(***************************************************************************)
(* EightBittr: the position of a Thing.  The unitsizes are even, so that   *)
(* half of width * unitsize is a whole number.                             *)
(***************************************************************************)
\* A Thing of an EightBittr with this unitsize, with its left and top at 0.
\* x and y are what the last call was given.
PlacedThing(unitsize_, width, height) ==
    [EightBitter |-> [unitsize |-> unitsize_], width |-> width, height |-> height, left |-> 0, top |-> 0, right |-> width * unitsize_, bottom |-> height * unitsize_, called |-> Undefined, x |-> 0, y |-> 0]

PhysicsIdle == PlacedThing(2, 1, 1)

setTop(thing, top) == [thing EXCEPT !.top = top, !.bottom = top + thing.height * thing.EightBitter.unitsize]

setRight(thing, right) == [thing EXCEPT !.right = right, !.left = right - thing.width * thing.EightBitter.unitsize]

setBottom(thing, bottom) == [thing EXCEPT !.bottom = bottom, !.top = bottom - thing.height * thing.EightBitter.unitsize]

setLeft(thing, left) == [thing EXCEPT !.left = left, !.right = left + thing.width * thing.EightBitter.unitsize]

\* setMidX gives setLeft x plus half the width.
setMidX(thing, x) == setLeft(thing, x + (thing.width * thing.EightBitter.unitsize) \div 2)

setMidY(thing, y) == setTop(thing, y + (thing.height * thing.EightBitter.unitsize) \div 2)

setMid(thing, x, y) == setMidY(setMidX(thing, x), y)

getMidX(thing) == thing.left + (thing.width * thing.EightBitter.unitsize) \div 2

getMidY(thing) == thing.top + (thing.height * thing.EightBitter.unitsize) \div 2

\* The Thing as an operation finds it.
Placing(thing, name, x, y) == [thing EXCEPT !.called = name, !.x = x, !.y = y]

\* The coordinates given.
Coordinates == {0, 3, 8}


(***************************************************************************)
(* GamesRunnr.  The handles the upkeepScheduler returns are 1, 2, ...;     *)
(* pending are the handles of the scheduled calls of upkeepBound that have *)
(* neither run nor been cancelled.                                         *)
(***************************************************************************)
\* The game Functions, by their place in the games Array.
Games == <<1, 2>>

\* What is not a handle: upkeepNext before the first upkeep, and the
\* Function this.upkeep, which pause gives to the upkeepCanceller.
NoHandle == 0
UpkeepFunction == NoHandle

\* step() has times undefined, and undefined > 0 is false, as NaN > 0 is.
NoArgument == NaN

\* new GamesRunnr(settings).  ran are the games run by the last operation,
\* in the order they ran, and ranPaused those of them that were called
\* while paused was true; pausing are the games that call pause().
GamesRunnr(adjustFramerate) ==
    [paused |-> TRUE, adjustFramerate |-> adjustFramerate, upkeepNext |-> NoHandle, pending |-> {}, handles |-> 0, ran |-> <<>>, called |-> Undefined, times |-> 0, wasPaused |-> TRUE, pausing |-> {}, ranPaused |-> <<>>]

RunnerIdle == GamesRunnr(FALSE)

\* this.upkeepNext = this.upkeepScheduler(this.upkeepBound, ...).
upkeepScheduler(r) == [r EXCEPT !.handles = @ + 1, !.upkeepNext = r.handles + 1, !.pending = @ \cup {r.handles + 1}]

upkeepCancellerNone(r, handle) == r

\* this.upkeepCanceller(handle).
upkeepCanceller(r, handle) == [r EXCEPT !.pending = @ \ {handle}]

pause(r) == IF r.paused THEN r ELSE upkeepCanceller([r EXCEPT !.paused = TRUE], UpkeepFunction)

\* this.run(game): the game is called, and calls pause() if it is one that
\* does.
run(r, game) ==
    LET called == [r EXCEPT !.ran = Append(@, game), !.ranPaused = IF r.paused THEN Append(@, game) ELSE @]
    IN  IF game \in r.pausing THEN pause(called) ELSE called

\* this.games.forEach(this.run), from game number i on.
RECURSIVE forEachRun(_, _)
forEachRun(r, i) == IF i > Len(Games) THEN r ELSE forEachRun(run(r, Games[i]), i + 1)

runGames(r) == forEachRun(r, 1)

upkeep(r) ==
    IF r.paused THEN r
    ELSE IF r.adjustFramerate
    THEN upkeepScheduler(runGames(upkeepCanceller(r, r.upkeepNext)))
    ELSE runGames(upkeepScheduler(upkeepCanceller(r, r.upkeepNext)))

play(r) == IF ~r.paused THEN r ELSE upkeep([r EXCEPT !.paused = FALSE])

RECURSIVE step(_, _)
step(r, times) ==
    LET stepped == pause(play(r))
    IN  IF times > 0 THEN step(stepped, times - 1) ELSE stepped

togglePause(r) == IF r.paused THEN play(r) ELSE pause(r)

\* The runner as an operation finds it.
Calling(r, name, times) == [r EXCEPT !.called = name, !.times = times, !.wasPaused = r.paused, !.ran = <<>>, !.ranPaused = <<>>]

(***************************************************************************)
(* AudioPlayr: the muted status.  Volumes are in hundredths; every sound   *)
(* that is playing has the attribute volumeReal "1".                       *)
(***************************************************************************)
Volumes == {0, 50, 100}
SoundNames == {"Coin", "Theme"}

\* An AudioPlayr whose StatsHolder holds these values of "muted" and
\* "volume", with these sounds playing.
AudioPlayr(muted, volume, names) ==
    [muted |-> muted, volume |-> volume, sounds |-> [name \in names |-> IF muted = 1 THEN 0 ELSE volume], called |-> Undefined, argument |-> FALSE, wasMuted |-> FALSE]

PlayerIdle == AudioPlayr(0, 100, {})

\* Boolean(this.StatsHolder.get("muted")).
getMuted(p) == p.muted # 0

getVolume(p) == p.volume

setMutedOn(p) == [p EXCEPT !.sounds = [name \in DOMAIN p.sounds |-> 0], !.muted = 1]

setMutedOff(p) == [p EXCEPT !.sounds = [name \in DOMAIN p.sounds |-> getVolume(p)], !.muted = 0]

\* setMuted(muted) chooses by this.getMuted(), whatever it is given.
setMuted(p, muted) == IF getMuted(p) THEN setMutedOn(p) ELSE setMutedOff(p)

toggleMuted(p) == setMuted(p, ~getMuted(p))

\* The player as an operation finds it.
Asking(p, name, argument) == [p EXCEPT !.called = name, !.argument = argument, !.wasMuted = getMuted(p)]


InitGrid ==
    /\ world = Canonical(resetQuadrants(Constructed))
    /\ framesDrawn = 0
    /\ stats = StatsIdle
    /\ maps = MapsIdle
    /\ physics = PhysicsIdle
    /\ canvas = CanvasIdle
    /\ runner = RunnerIdle
    /\ player = PlayerIdle
    /\ drawn = <<>>
    /\ last = Op("resetQuadrants", Undefined, Undefined)
    /\ ops = 0
    /\ sprite = SpriteIdle
    /\ filr = FilrIdle
    /\ rendr = RendrIdle

ResetQuadrants ==
    /\ world' = Canonical(resetQuadrants([world EXCEPT !.calls = <<>>]))
    /\ last' = Op("resetQuadrants", Undefined, Undefined)
    /\ ops' = 0
    /\ UNCHANGED <<framesDrawn, drawn, filr, rendr, sprite, canvas, runner, player, stats, maps, physics>>

ShiftQuadrants(dx, dy) ==
    /\ ops < MaxOps
    /\ world' = Canonical(shiftQuadrants([world EXCEPT !.calls = <<>>], dx, dy))
    /\ world'.numRows <= MaxRows
    /\ LET returned == last.op = "shiftQuadrants" /\ last.dx = -dx /\ last.dy = -dy
       IN  last' = [Op("shiftQuadrants", Undefined, Undefined) EXCEPT !.dx = dx, !.dy = dy, !.before = Bounds(world), !.offsetX = world.offsetX, !.offsetY = world.offsetY, !.returned = returned, !.origin = IF returned THEN last.before ELSE <<>>, !.originOffsetX = IF returned THEN last.offsetX ELSE 0, !.originOffsetY = IF returned THEN last.offsetY ELSE 0]
    /\ ops' = ops + 1
    /\ UNCHANGED <<framesDrawn, drawn, filr, rendr, sprite, canvas, runner, player, stats, maps, physics>>

\* EightBittr.shiftHoriz and shiftVert.
shiftHoriz(thing, dx) == [thing EXCEPT !.left = @ + dx, !.right = @ + dx]
shiftVert(thing, dy) == [thing EXCEPT !.top = @ + dy, !.bottom = @ + dy]

\* The game moves a Thing, and marks it changed or not.
MoveThing(t, v, mark) ==
    /\ ops < MaxOps
    /\ world' = [world EXCEPT !.calls = <<>>, !.things[t] = [shiftVert(shiftHoriz(@, v[1]), v[2]) EXCEPT !.changed = mark \/ @]]
    /\ last' = [Op("moveThing", t, Undefined) EXCEPT !.dx = v[1], !.dy = v[2]]
    /\ ops' = ops + 1
    /\ UNCHANGED <<framesDrawn, drawn, filr, rendr, sprite, canvas, runner, player, stats, maps, physics>>

DetermineThingQuadrants(t) ==
    /\ ops < MaxOps
    /\ world' = Canonical(determineThingQuadrants([world EXCEPT !.calls = <<>>], t))
    /\ last' = Op("determineThingQuadrants", t, Undefined)
    /\ ops' = ops + 1
    /\ UNCHANGED <<framesDrawn, drawn, filr, rendr, sprite, canvas, runner, player, stats, maps, physics>>

\* The Things of a group, as the game keeps them in the group's array.
GroupArray(group) == SelectSeq(ThingOrder, LAMBDA t : world.things[t].group = group)

DetermineAllQuadrants(group) ==
    /\ ops < MaxOps
    /\ world' = Canonical(determineAllQuadrants([world EXCEPT !.calls = <<>>], group, GroupArray(group)))
    /\ last' = [Op("determineAllQuadrants", Undefined, group) EXCEPT !.given = GroupArray(group)]
    /\ ops' = ops + 1
    /\ UNCHANGED <<framesDrawn, drawn, filr, rendr, sprite, canvas, runner, player, stats, maps, physics>>

\* PixelDrawr.refillQuadrantGroups(QuadsKeeper.getQuadrantRows()).
RefillQuadrantGroups ==
    LET frames == (framesDrawn + 1) % framerateSkip
        filled == refillQuadrantGroups([world EXCEPT !.calls = <<>>], frames, world.quadrantRows)
    IN  /\ framesDrawn' = frames
        /\ world' = filled.w
        /\ drawn' = filled.drawn
        /\ last' = [Op("refillQuadrantGroups", Undefined, Undefined) EXCEPT !.skipped = frames % framerateSkip # 0, !.changedBefore = {id \in SeqIds(world.quadrantRows) : world.heap[id].changed}]
        /\ UNCHANGED <<ops, filr, rendr, sprite, canvas, runner, player, stats, maps, physics>>

NextShift == ResetQuadrants \/ \E v \in ShiftVectors : ShiftQuadrants(v[1], v[2])

SpecShift == InitGrid /\ [][NextShift]_vars

NextPlace ==
    \/ \E t \in ThingNames, v \in MoveVectors, mark \in BOOLEAN : MoveThing(t, v, mark)
    \/ \E t \in ThingNames : DetermineThingQuadrants(t)
    \/ \E group \in {groupNames[i] : i \in 1..Len(groupNames)} : DetermineAllQuadrants(group)

SpecPlace == InitGrid /\ [][NextPlace]_vars

\* The calls of the QuadsKeepr alone, the Things staying where they are.
NextKeep ==
    \/ \E group \in {groupNames[i] : i \in 1..Len(groupNames)} : DetermineAllQuadrants(group)
    \/ \E t \in ThingNames : DetermineThingQuadrants(t)
    \/ \E v \in ShiftVectors : ShiftQuadrants(v[1], v[2])

SpecKeep == InitGrid /\ [][NextKeep]_vars

NextDraw ==
    \/ RefillQuadrantGroups
    \/ \E t \in ThingNames, v \in MoveVectors : MoveThing(t, v, TRUE)
    \/ \E group \in {groupNames[i] : i \in 1..Len(groupNames)} : DetermineAllQuadrants(group)
    \/ \E v \in ScrollVectors : ShiftQuadrants(v[1], v[2])

SpecDraw == InitGrid /\ [][NextDraw]_vars

(***************************************************************************)
(* Two Things of one group, moved, given or not given to                   *)
(* determineAllQuadrants, and drawn.                                       *)
(***************************************************************************)
\* Both Things are Characters, and both meet the Quadrant of row 1, col 1.
ThingsCrowd ==
    [t \in ThingNames |->
        IF t = "a"
        THEN [top |-> 5, right |-> 15, bottom |-> 15, left |-> 5, group |-> "Character", changed |-> TRUE, numquads |-> 0, quadrants |-> <<>>, offsetX |-> 0, offsetY |-> 0, hidden |-> FALSE]
        ELSE [top |-> 12, right |-> 22, bottom |-> 22, left |-> 12, group |-> "Character", changed |-> TRUE, numquads |-> 0, quadrants |-> <<>>, offsetX |-> 0, offsetY |-> 0, hidden |-> FALSE]]

InitCrowd ==
    /\ world = Canonical(resetQuadrants([Constructed EXCEPT !.things = ThingsCrowd]))
    /\ framesDrawn = 0
    /\ stats = StatsIdle
    /\ maps = MapsIdle
    /\ physics = PhysicsIdle
    /\ canvas = CanvasIdle
    /\ runner = RunnerIdle
    /\ player = PlayerIdle
    /\ drawn = <<>>
    /\ last = Op("resetQuadrants", Undefined, Undefined)
    /\ ops = 0
    /\ sprite = SpriteIdle
    /\ filr = FilrIdle
    /\ rendr = RendrIdle

\* The Arrays the game may give for a group: the Things of the group in
\* their order, with any of them dropped.
GivenArrays(group) == {SelectSeq(GroupArray(group), LAMBDA t : t \in kept) : kept \in SUBSET ThingNames}

\* determineAllQuadrants(group, things), with the Array the game gives.
DetermineAllQuadrantsGiven(group, things) ==
    /\ ops < MaxOps
    /\ world' = Canonical(determineAllQuadrants([world EXCEPT !.calls = <<>>], group, things))
    /\ last' = [Op("determineAllQuadrants", Undefined, group) EXCEPT !.given = things]
    /\ ops' = ops + 1
    /\ UNCHANGED <<framesDrawn, drawn, filr, rendr, sprite, canvas, runner, player, stats, maps, physics>>

\* PixelDrawr.refillQuadrantGroups(QuadsKeeper.getQuadrantRows()); after is
\* the last operation of the QuadsKeepr or the game before it.
RefillQuadrantGroupsAfter ==
    LET frames == (framesDrawn + 1) % framerateSkip
        filled == refillQuadrantGroups([world EXCEPT !.calls = <<>>], frames, world.quadrantRows)
    IN  /\ framesDrawn' = frames
        /\ world' = filled.w
        /\ drawn' = filled.drawn
        /\ last' = [Op("refillQuadrantGroups", Undefined, Undefined) EXCEPT !.skipped = frames % framerateSkip # 0, !.changedBefore = {id \in SeqIds(world.quadrantRows) : world.heap[id].changed}, !.after = IF last.op = "refillQuadrantGroups" THEN last.after ELSE last.op]
        /\ UNCHANGED <<ops, filr, rendr, sprite, canvas, runner, player, stats, maps, physics>>

NextCrowd ==
    \/ \E t \in ThingNames, v \in MoveVectors : MoveThing(t, v, TRUE)
    \/ \E group \in {groupNames[i] : i \in 1..Len(groupNames)} : \E things \in GivenArrays(group) : DetermineAllQuadrantsGiven(group, things)
    \/ RefillQuadrantGroupsAfter

SpecCrowd == InitCrowd /\ [][NextCrowd]_vars

(***************************************************************************)
(* spriteUnravel, one pass of its loop at a time.                          *)
(***************************************************************************)
InitUnravel ==
    /\ world = Canonical(resetQuadrants(Constructed))
    /\ framesDrawn = 0
    /\ stats = StatsIdle
    /\ maps = MapsIdle
    /\ physics = PhysicsIdle
    /\ canvas = CanvasIdle
    /\ runner = RunnerIdle
    /\ player = PlayerIdle
    /\ drawn = <<>>
    /\ last = Op("resetQuadrants", Undefined, Undefined)
    /\ ops = 0
    /\ filr = FilrIdle
    /\ rendr = RendrIdle
    /\ \E paletteDefault \in Palettes, parts \in SeqsUpTo(Parts, MaxParts) :
        /\ parts # <<>>
        /\ WellFormed(paletteDefault, parts)
        /\ sprite = Unravelling(paletteDefault, parts)

\* while (loc < clength), for as many passes as the encoding has
\* characters and one more.
Pass(case) ==
    /\ sprite.st.loc < Len(sprite.st.colors)
    /\ sprite.passes <= Len(sprite.st.colors)
    /\ case = (IF CharAt(sprite.st.colors, sprite.st.loc) \in {"x", "p"} THEN CharAt(sprite.st.colors, sprite.st.loc) ELSE "default")
    /\ sprite' = [sprite EXCEPT !.prev = sprite.st, !.st = spriteUnravelStep(sprite.st), !.passes = @ + 1]
    /\ UNCHANGED <<world, framesDrawn, drawn, last, ops, filr, rendr, canvas, runner, player, stats, maps, physics>>

UnravelRun == Pass("x")
UnravelPalette == Pass("p")
UnravelLiteral == Pass("default")

NextUnravel == UnravelRun \/ UnravelPalette \/ UnravelLiteral

SpecUnravel == InitUnravel /\ [][NextUnravel]_vars

(***************************************************************************)
(* StringFilr.get, call by call.                                           *)
(***************************************************************************)
InitFilr ==
    /\ world = Canonical(resetQuadrants(Constructed))
    /\ framesDrawn = 0
    /\ stats = StatsIdle
    /\ maps = MapsIdle
    /\ physics = PhysicsIdle
    /\ canvas = CanvasIdle
    /\ runner = RunnerIdle
    /\ player = PlayerIdle
    /\ drawn = <<>>
    /\ last = Op("resetQuadrants", Undefined, Undefined)
    /\ ops = 0
    /\ sprite = SpriteIdle
    /\ rendr = RendrIdle
    /\ \E library \in Libraries : filr = StringFilr(library)

Get(keyRaw) ==
    /\ filr.gets < MaxGets
    /\ LET got == get(filr, keyRaw)
       IN  filr' = [filr EXCEPT !.cache = got.cache, !.keyRaw = keyRaw, !.result = got.result, !.gets = @ + 1]
    /\ UNCHANGED <<world, framesDrawn, drawn, last, ops, rendr, sprite, canvas, runner, player, stats, maps, physics>>

NextFilr == \E keyRaw \in GetKeys : Get(keyRaw)

SpecFilr == InitFilr /\ [][NextFilr]_vars

(***************************************************************************)
(* new StringFilr(settings).                                               *)
(***************************************************************************)
InitStrict ==
    /\ world = Canonical(resetQuadrants(Constructed))
    /\ framesDrawn = 0
    /\ stats = StatsIdle
    /\ maps = MapsIdle
    /\ physics = PhysicsIdle
    /\ canvas = CanvasIdle
    /\ runner = RunnerIdle
    /\ player = PlayerIdle
    /\ drawn = <<>>
    /\ last = Op("resetQuadrants", Undefined, Undefined)
    /\ ops = 0
    /\ sprite = SpriteIdle
    /\ rendr = RendrIdle
    /\ \E library \in StrictLibraries, requireNormalKey \in BOOLEAN :
        filr = [settings |-> [library |-> library, requireNormalKey |-> requireNormalKey], constructed |-> FALSE, thrown |-> FALSE]

NewStringFilr ==
    /\ ~filr.constructed
    /\ filr' = [filr EXCEPT !.constructed = TRUE, !.thrown = newStringFilr(filr.settings)]
    /\ UNCHANGED <<world, framesDrawn, drawn, last, ops, rendr, sprite, canvas, runner, player, stats, maps, physics>>

NextStrict == NewStringFilr

SpecStrict == InitStrict /\ [][NextStrict]_vars

(***************************************************************************)
(* new PixelRendr(settings) and new QuadsKeepr(settings).  The settings    *)
(* are the set of the names given, each with the value it has in this      *)
(* model; a name left out is undefined in the settings Object.             *)
(***************************************************************************)
PixelRendrSettings == SUBSET {"paletteDefault", "library"}
QuadsKeeprSettings == SUBSET {"ObjectMaker", "numRows", "numCols", "quadrantWidth", "quadrantHeight", "groupNames"}

\* new PixelRendr(settings): whether it throws, and the keys of
\* library.raws when it does not.
newPixelRendr(settings) ==
    IF "paletteDefault" \notin settings
    THEN [thrown |-> TRUE, raws |-> {}]
    ELSE [thrown |-> FALSE, raws |-> IF "library" \in settings THEN DOMAIN Sprites ELSE {}]

\* new QuadsKeepr(settings): whether it throws.
newQuadsKeepr(settings) ==
    \/ "ObjectMaker" \notin settings
    \/ "numRows" \notin settings
    \/ "numCols" \notin settings
    \/ "quadrantWidth" \notin settings
    \/ "quadrantHeight" \notin settings
    \/ "groupNames" \notin settings

InitConstruct ==
    /\ framesDrawn = 0
    /\ stats = StatsIdle
    /\ maps = MapsIdle
    /\ physics = PhysicsIdle
    /\ canvas = CanvasIdle
    /\ runner = RunnerIdle
    /\ player = PlayerIdle
    /\ drawn = <<>>
    /\ last = Op("resetQuadrants", Undefined, Undefined)
    /\ ops = 0
    /\ sprite = SpriteIdle
    /\ filr = FilrIdle
    /\ \E settings \in PixelRendrSettings : rendr = [settings |-> settings, constructed |-> FALSE, thrown |-> FALSE, raws |-> {}]
    /\ \E settings \in QuadsKeeprSettings : world = [settings |-> settings, constructed |-> FALSE, thrown |-> FALSE]

NewPixelRendr ==
    /\ ~rendr.constructed
    /\ rendr' = [rendr EXCEPT !.constructed = TRUE, !.thrown = newPixelRendr(rendr.settings).thrown, !.raws = newPixelRendr(rendr.settings).raws]
    /\ UNCHANGED <<world, framesDrawn, drawn, last, ops, filr, sprite, canvas, runner, player, stats, maps, physics>>

NewQuadsKeepr ==
    /\ ~world.constructed
    /\ world' = [world EXCEPT !.constructed = TRUE, !.thrown = newQuadsKeepr(world.settings)]
    /\ UNCHANGED <<framesDrawn, drawn, last, ops, filr, rendr, sprite, canvas, runner, player, stats, maps, physics>>

NextConstruct == NewPixelRendr \/ NewQuadsKeepr

SpecConstruct == InitConstruct /\ [][NextConstruct]_vars

(***************************************************************************)
(* PixelRendr.decode, call by call.                                        *)
(***************************************************************************)
InitDecode == InitGrid

Decode(key, attributes) ==
    /\ rendr.decodes < MaxDecodes
    /\ LET decoded == decode(rendr, key, attributes)
       IN  rendr' = [rendr EXCEPT !.BaseFiler = decoded.BaseFiler, !.ProcessorDims = decoded.ProcessorDims, !.key = key, !.attributes = attributes, !.result = decoded.result, !.decodes = @ + 1]
    /\ UNCHANGED <<world, framesDrawn, drawn, last, ops, filr, sprite, canvas, runner, player, stats, maps, physics>>

NextDecode == \E key \in DecodeKeys, attributes \in Attributes : Decode(key, attributes)

SpecDecode == InitDecode /\ [][NextDecode]_vars

(***************************************************************************)
(* PixelRendr.spriteApplyFilter, applied to the arguments Init draws.      *)
(***************************************************************************)
InitFilter ==
    /\ world = Canonical(resetQuadrants(Constructed))
    /\ framesDrawn = 0
    /\ stats = StatsIdle
    /\ maps = MapsIdle
    /\ physics = PhysicsIdle
    /\ canvas = CanvasIdle
    /\ runner = RunnerIdle
    /\ player = PlayerIdle
    /\ drawn = <<>>
    /\ last = Op("resetQuadrants", Undefined, Undefined)
    /\ ops = 0
    /\ sprite = SpriteIdle
    /\ filr = FilrIdle
    /\ \E paletteDefault \in Palettes :
        \E colors \in Unravelleds(paletteDefault), filter \in Filters(paletteDefault) :
            rendr = [RendrIdle EXCEPT !.call = [name |-> "spriteApplyFilter", paletteDefault |-> paletteDefault, colors |-> colors, filter |-> filter, returned |-> FALSE, result |-> <<>>]]

SpriteApplyFilter ==
    /\ rendr.call.name = "spriteApplyFilter"
    /\ ~rendr.call.returned
    /\ rendr' = [rendr EXCEPT !.call.returned = TRUE, !.call.result = spriteApplyFilter(rendr.call.colors, rendr.call.filter, getDigitSize(rendr.call.paletteDefault))]
    /\ UNCHANGED <<world, framesDrawn, drawn, last, ops, filr, sprite, canvas, runner, player, stats, maps, physics>>

NextFilter == SpriteApplyFilter

SpecFilter == InitFilter /\ [][NextFilter]_vars

(***************************************************************************)
(* PixelRendr.encode of an image, and the text it gives drawn as a sprite. *)
(***************************************************************************)
InitEncode ==
    /\ world = Canonical(resetQuadrants(Constructed))
    /\ framesDrawn = 0
    /\ stats = StatsIdle
    /\ maps = MapsIdle
    /\ physics = PhysicsIdle
    /\ canvas = CanvasIdle
    /\ runner = RunnerIdle
    /\ player = PlayerIdle
    /\ drawn = <<>>
    /\ last = Op("resetQuadrants", Undefined, Undefined)
    /\ ops = 0
    /\ sprite = SpriteIdle
    /\ filr = FilrIdle
    /\ \E paletteDefault \in Palettes :
        \E image \in Images(paletteDefault) :
            rendr = [RendrIdle EXCEPT !.call = [name |-> "encode", paletteDefault |-> paletteDefault, image |-> image, returned |-> FALSE, result |-> <<>>, decoded |-> FALSE, sprite |-> [thrown |-> FALSE, output |-> <<>>]]]

EncodeImage ==
    /\ rendr.call.name = "encode"
    /\ ~rendr.call.returned
    /\ rendr' = [rendr EXCEPT !.call.returned = TRUE, !.call.result = encode(rendr.call.paletteDefault, JoinAll(rendr.call.image))]
    /\ UNCHANGED <<world, framesDrawn, drawn, last, ops, filr, sprite, canvas, runner, player, stats, maps, physics>>

\* The text of the encoding through spriteUnravel and spriteGetArray.
DecodeEncoded ==
    /\ rendr.call.name = "encode"
    /\ rendr.call.returned
    /\ ~rendr.call.decoded
    /\ rendr' = [rendr EXCEPT !.call.decoded = TRUE, !.call.sprite = spriteGetArray(rendr.call.paletteDefault, spriteUnravel(rendr.call.paletteDefault, rendr.call.result))]
    /\ UNCHANGED <<world, framesDrawn, drawn, last, ops, filr, sprite, canvas, runner, player, stats, maps, physics>>

NextEncode == EncodeImage \/ DecodeEncoded

SpecEncode == InitEncode /\ [][NextEncode]_vars

(***************************************************************************)
(* PixelRendr.getClosestInPalette, applied to the arguments Init draws.    *)
(***************************************************************************)
InitClosest ==
    /\ world = Canonical(resetQuadrants(Constructed))
    /\ framesDrawn = 0
    /\ stats = StatsIdle
    /\ maps = MapsIdle
    /\ physics = PhysicsIdle
    /\ canvas = CanvasIdle
    /\ runner = RunnerIdle
    /\ player = PlayerIdle
    /\ drawn = <<>>
    /\ last = Op("resetQuadrants", Undefined, Undefined)
    /\ ops = 0
    /\ sprite = SpriteIdle
    /\ filr = FilrIdle
    /\ \E palette \in ClosePalettes, rgba \in ClosePixels :
        rendr = [RendrIdle EXCEPT !.call = [name |-> "getClosestInPalette", palette |-> palette, rgba |-> rgba, returned |-> FALSE, result |-> 0]]

GetClosestInPalette ==
    /\ rendr.call.name = "getClosestInPalette"
    /\ ~rendr.call.returned
    /\ rendr' = [rendr EXCEPT !.call.returned = TRUE, !.call.result = getClosestInPalette(rendr.call.palette, rendr.call.rgba)]
    /\ UNCHANGED <<world, framesDrawn, drawn, last, ops, filr, sprite, canvas, runner, player, stats, maps, physics>>

NextClosest == GetClosestInPalette

SpecClosest == InitClosest /\ [][NextClosest]_vars

(***************************************************************************)
(* PixelDrawr.drawThingOnContext and drawThingOnQuadrant of one Thing.     *)
(***************************************************************************)
InitContext ==
    /\ world = Canonical(resetQuadrants(Constructed))
    /\ framesDrawn = 0
    /\ stats = StatsIdle
    /\ maps = MapsIdle
    /\ physics = PhysicsIdle
    /\ drawn = <<>>
    /\ last = Op("resetQuadrants", Undefined, Undefined)
    /\ ops = 0
    /\ sprite = SpriteIdle
    /\ filr = FilrIdle
    /\ rendr = RendrIdle
    /\ runner = RunnerIdle
    /\ player = PlayerIdle
    /\ \E thing \in SingleThings \cup VerticalThings \cup HorizontalThings \cup CornersThings :
        canvas = [called |-> Undefined, thing |-> thing, before |-> NewContext, context |-> NewContext, origin |-> <<0, 0>>]

DrawThingOnContext ==
    /\ canvas.called = Undefined
    /\ canvas' = [canvas EXCEPT !.called = "drawThingOnContext", !.context = drawThingOnContext(canvas.context, canvas.thing), !.origin = <<drawrGetLeft(canvas.thing), drawrGetTop(canvas.thing)>>]
    /\ UNCHANGED <<world, framesDrawn, drawn, last, ops, filr, rendr, sprite, runner, player, stats, maps, physics>>

DrawThingOnQuadrant ==
    /\ canvas.called = Undefined
    /\ canvas' = [canvas EXCEPT !.called = "drawThingOnQuadrant", !.context = drawThingOnQuadrantContext(canvas.thing, DrawnQuadrant), !.origin = <<drawrGetLeft(canvas.thing) - DrawnQuadrant.left, drawrGetTop(canvas.thing) - DrawnQuadrant.top>>]
    /\ UNCHANGED <<world, framesDrawn, drawn, last, ops, filr, rendr, sprite, runner, player, stats, maps, physics>>

NextContext == DrawThingOnContext \/ DrawThingOnQuadrant

SpecContext == InitContext /\ [][NextContext]_vars

(***************************************************************************)
(* A GamesRunnr, played, paused and stepped, and its scheduled upkeeps.    *)
(***************************************************************************)
InitRunner ==
    /\ world = Canonical(resetQuadrants(Constructed))
    /\ framesDrawn = 0
    /\ stats = StatsIdle
    /\ maps = MapsIdle
    /\ physics = PhysicsIdle
    /\ canvas = CanvasIdle
    /\ player = PlayerIdle
    /\ drawn = <<>>
    /\ last = Op("resetQuadrants", Undefined, Undefined)
    /\ ops = 0
    /\ sprite = SpriteIdle
    /\ filr = FilrIdle
    /\ rendr = RendrIdle
    /\ \E adjustFramerate \in BOOLEAN : runner = GamesRunnr(adjustFramerate)

Play ==
    /\ LET next == play(Calling(runner, "play", 0))
       IN  next.handles <= MaxHandles /\ runner' = next
    /\ UNCHANGED <<world, framesDrawn, drawn, last, ops, filr, rendr, sprite, canvas, player, stats, maps, physics>>

Pause ==
    /\ LET next == pause(Calling(runner, "pause", 0))
       IN  next.handles <= MaxHandles /\ runner' = next
    /\ UNCHANGED <<world, framesDrawn, drawn, last, ops, filr, rendr, sprite, canvas, player, stats, maps, physics>>

Step(times) ==
    /\ LET next == step(Calling(runner, "step", times), times)
       IN  next.handles <= MaxHandles /\ runner' = next
    /\ UNCHANGED <<world, framesDrawn, drawn, last, ops, filr, rendr, sprite, canvas, player, stats, maps, physics>>

TogglePause ==
    /\ LET next == togglePause(Calling(runner, "togglePause", 0))
       IN  next.handles <= MaxHandles /\ runner' = next
    /\ UNCHANGED <<world, framesDrawn, drawn, last, ops, filr, rendr, sprite, canvas, player, stats, maps, physics>>

\* A scheduled call of upkeepBound runs.
Upkeep(handle) ==
    /\ handle \in runner.pending
    /\ LET next == upkeep([Calling(runner, "upkeep", 0) EXCEPT !.pending = @ \ {handle}])
       IN  next.handles <= MaxHandles /\ runner' = next
    /\ UNCHANGED <<world, framesDrawn, drawn, last, ops, filr, rendr, sprite, canvas, player, stats, maps, physics>>

NextRunner ==
    \/ Play
    \/ Pause
    \/ \E times \in {NoArgument} \cup 0..MaxTimes : Step(times)
    \/ TogglePause
    \/ \E handle \in 1..MaxHandles : Upkeep(handle)

SpecRunner == InitRunner /\ [][NextRunner]_vars

(***************************************************************************)
(* A GamesRunnr some of whose games call pause().                          *)
(***************************************************************************)
InitGames ==
    /\ world = Canonical(resetQuadrants(Constructed))
    /\ framesDrawn = 0
    /\ stats = StatsIdle
    /\ maps = MapsIdle
    /\ physics = PhysicsIdle
    /\ canvas = CanvasIdle
    /\ player = PlayerIdle
    /\ drawn = <<>>
    /\ last = Op("resetQuadrants", Undefined, Undefined)
    /\ ops = 0
    /\ sprite = SpriteIdle
    /\ filr = FilrIdle
    /\ rendr = RendrIdle
    /\ \E adjustFramerate \in BOOLEAN, pausing \in SUBSET {Games[i] : i \in 1..Len(Games)} :
            runner = [GamesRunnr(adjustFramerate) EXCEPT !.pausing = pausing]

SpecGames == InitGames /\ [][NextRunner]_vars

(***************************************************************************)
(* An AudioPlayr, muted and unmuted.                                       *)
(***************************************************************************)
InitPlayer ==
    /\ world = Canonical(resetQuadrants(Constructed))
    /\ framesDrawn = 0
    /\ stats = StatsIdle
    /\ maps = MapsIdle
    /\ physics = PhysicsIdle
    /\ canvas = CanvasIdle
    /\ runner = RunnerIdle
    /\ drawn = <<>>
    /\ last = Op("resetQuadrants", Undefined, Undefined)
    /\ ops = 0
    /\ sprite = SpriteIdle
    /\ filr = FilrIdle
    /\ rendr = RendrIdle
    /\ \E muted \in {0, 1}, volume \in Volumes, names \in SUBSET SoundNames : player = AudioPlayr(muted, volume, names)

SetMuted(muted) ==
    /\ player' = setMuted(Asking(player, "setMuted", muted), muted)
    /\ UNCHANGED <<world, framesDrawn, drawn, last, ops, filr, rendr, sprite, canvas, runner, stats, maps, physics>>

ToggleMuted ==
    /\ player' = toggleMuted(Asking(player, "toggleMuted", FALSE))
    /\ UNCHANGED <<world, framesDrawn, drawn, last, ops, filr, rendr, sprite, canvas, runner, stats, maps, physics>>

SetMutedOn ==
    /\ player' = setMutedOn(Asking(player, "setMutedOn", FALSE))
    /\ UNCHANGED <<world, framesDrawn, drawn, last, ops, filr, rendr, sprite, canvas, runner, stats, maps, physics>>

SetMutedOff ==
    /\ player' = setMutedOff(Asking(player, "setMutedOff", FALSE))
    /\ UNCHANGED <<world, framesDrawn, drawn, last, ops, filr, rendr, sprite, canvas, runner, stats, maps, physics>>

NextPlayer ==
    \/ \E muted \in BOOLEAN : SetMuted(muted)
    \/ ToggleMuted
    \/ SetMutedOn
    \/ SetMutedOff

SpecPlayer == InitPlayer /\ [][NextPlayer]_vars

(***************************************************************************)
(* A StatsHoldr whose value is set, increased, decreased and toggled.      *)
(***************************************************************************)
InitStats ==
    /\ world = Canonical(resetQuadrants(Constructed))
    /\ framesDrawn = 0
    /\ maps = MapsIdle
    /\ physics = PhysicsIdle
    /\ canvas = CanvasIdle
    /\ runner = RunnerIdle
    /\ player = PlayerIdle
    /\ drawn = <<>>
    /\ last = Op("resetQuadrants", Undefined, Undefined)
    /\ ops = 0
    /\ sprite = SpriteIdle
    /\ filr = FilrIdle
    /\ rendr = RendrIdle
    /\ \E minimum \in {0, 2}, maximum \in {5, 7}, modularity \in {0, 4} : stats = StatsValue(minimum, minimum, maximum, modularity)

Set(value) ==
    /\ LET next == set(stats, value)
       IN  next.value <= MaxValue /\ stats' = next
    /\ UNCHANGED <<world, framesDrawn, drawn, last, ops, filr, rendr, sprite, canvas, runner, player, maps, physics>>

Increase(amount) ==
    /\ LET next == increase(stats, amount)
       IN  next.value <= MaxValue /\ stats' = next
    /\ UNCHANGED <<world, framesDrawn, drawn, last, ops, filr, rendr, sprite, canvas, runner, player, maps, physics>>

Decrease(amount) ==
    /\ LET next == decrease(stats, amount)
       IN  next.value <= MaxValue /\ stats' = next
    /\ UNCHANGED <<world, framesDrawn, drawn, last, ops, filr, rendr, sprite, canvas, runner, player, maps, physics>>

Toggle ==
    /\ LET next == toggle(stats)
       IN  next.value <= MaxValue /\ stats' = next
    /\ UNCHANGED <<world, framesDrawn, drawn, last, ops, filr, rendr, sprite, canvas, runner, player, maps, physics>>

NextStats ==
    \/ \E value \in -1..MaxValue : Set(value)
    \/ \E amount \in 1..3 : Increase(amount)
    \/ \E amount \in 1..3 : Decrease(amount)
    \/ Toggle

SpecStats == InitStats /\ [][NextStats]_vars

(***************************************************************************)
(* A MapsHandlr whose area is spawned and unspawned.                       *)
(***************************************************************************)
InitMaps ==
    /\ world = Canonical(resetQuadrants(Constructed))
    /\ framesDrawn = 0
    /\ stats = StatsIdle
    /\ physics = PhysicsIdle
    /\ canvas = CanvasIdle
    /\ runner = RunnerIdle
    /\ player = PlayerIdle
    /\ drawn = <<>>
    /\ last = Op("resetQuadrants", Undefined, Undefined)
    /\ ops = 0
    /\ sprite = SpriteIdle
    /\ filr = FilrIdle
    /\ rendr = RendrIdle
    /\ \E prethings \in Areas, onSpawn \in BOOLEAN, onUnspawn \in BOOLEAN : maps = MapsHandlr(prethings, onSpawn, onUnspawn)

SpawnMap(direction, box) ==
    /\ maps.spawns < MaxSpawns
    /\ maps' = spawnMap(Spawning(maps, "spawnMap", direction, box), direction, box)
    /\ UNCHANGED <<world, framesDrawn, drawn, last, ops, filr, rendr, sprite, canvas, runner, player, stats, physics>>

UnspawnMap(direction, box) ==
    /\ maps.spawns < MaxSpawns
    /\ maps' = unspawnMap(Spawning(maps, "unspawnMap", direction, box), direction, box)
    /\ UNCHANGED <<world, framesDrawn, drawn, last, ops, filr, rendr, sprite, canvas, runner, player, stats, physics>>

NextMaps ==
    \/ \E direction \in Directions, box \in Boxes : SpawnMap(direction, box)
    \/ \E direction \in Directions, box \in Boxes : UnspawnMap(direction, box)

SpecMaps == InitMaps /\ [][NextMaps]_vars

(***************************************************************************)
(* A Thing placed by EightBittr's position functions.                      *)
(***************************************************************************)
InitPhysics ==
    /\ world = Canonical(resetQuadrants(Constructed))
    /\ framesDrawn = 0
    /\ stats = StatsIdle
    /\ maps = MapsIdle
    /\ canvas = CanvasIdle
    /\ runner = RunnerIdle
    /\ player = PlayerIdle
    /\ drawn = <<>>
    /\ last = Op("resetQuadrants", Undefined, Undefined)
    /\ ops = 0
    /\ sprite = SpriteIdle
    /\ filr = FilrIdle
    /\ rendr = RendrIdle
    /\ \E unitsize_ \in {2, 4}, width \in {0, 1, 3}, height \in {1, 2} : physics = PlacedThing(unitsize_, width, height)

SetMidX(x) ==
    /\ physics' = setMidX(Placing(physics, "setMidX", x, 0), x)
    /\ UNCHANGED <<world, framesDrawn, drawn, last, ops, filr, rendr, sprite, canvas, runner, player, stats, maps>>

SetMidY(y) ==
    /\ physics' = setMidY(Placing(physics, "setMidY", 0, y), y)
    /\ UNCHANGED <<world, framesDrawn, drawn, last, ops, filr, rendr, sprite, canvas, runner, player, stats, maps>>

SetMid(x, y) ==
    /\ physics' = setMid(Placing(physics, "setMid", x, y), x, y)
    /\ UNCHANGED <<world, framesDrawn, drawn, last, ops, filr, rendr, sprite, canvas, runner, player, stats, maps>>

SetLeft(x) ==
    /\ physics' = setLeft(Placing(physics, "setLeft", x, 0), x)
    /\ UNCHANGED <<world, framesDrawn, drawn, last, ops, filr, rendr, sprite, canvas, runner, player, stats, maps>>

SetRight(x) ==
    /\ physics' = setRight(Placing(physics, "setRight", x, 0), x)
    /\ UNCHANGED <<world, framesDrawn, drawn, last, ops, filr, rendr, sprite, canvas, runner, player, stats, maps>>

SetTop(y) ==
    /\ physics' = setTop(Placing(physics, "setTop", 0, y), y)
    /\ UNCHANGED <<world, framesDrawn, drawn, last, ops, filr, rendr, sprite, canvas, runner, player, stats, maps>>

SetBottom(y) ==
    /\ physics' = setBottom(Placing(physics, "setBottom", 0, y), y)
    /\ UNCHANGED <<world, framesDrawn, drawn, last, ops, filr, rendr, sprite, canvas, runner, player, stats, maps>>

NextPhysics ==
    \/ \E x \in Coordinates : SetMidX(x)
    \/ \E y \in Coordinates : SetMidY(y)
    \/ \E x \in Coordinates, y \in Coordinates : SetMid(x, y)
    \/ \E x \in Coordinates : SetLeft(x)
    \/ \E x \in Coordinates : SetRight(x)
    \/ \E y \in Coordinates : SetTop(y)
    \/ \E y \in Coordinates : SetBottom(y)

SpecPhysics == InitPhysics /\ [][NextPhysics]_vars

(***************************************************************************)
(* Claims about the grid under resetQuadrants and shiftQuadrants.          *)
(***************************************************************************)
\* C2: after any sequence of shiftQuadrants calls the grid has exactly the
\* configured number of rows and the configured number of columns.
C2_RowColCountKept ==
    /\ world.numRows = settingsNumRows
    /\ world.numCols = settingsNumCols
    /\ Len(world.quadrantRows) = settingsNumRows
    /\ Len(world.quadrantCols) = settingsNumCols

\* The places (r, c) of Quadrant id in the row containers, and the places
\* (c, r) in the column containers.
PlacesInRows(w, id) == {<<r, c>> \in (1..Len(w.quadrantRows)) \X (1..(w.numCols + w.numRows + 1)) : c <= Len(w.quadrantRows[r].quadrants) /\ w.quadrantRows[r].quadrants[c] = id}
PlacesInCols(w, id) == {<<c, r>> \in (1..Len(w.quadrantCols)) \X (1..(w.numCols + w.numRows + 1)) : r <= Len(w.quadrantCols[c].quadrants) /\ w.quadrantCols[c].quadrants[r] = id}

\* C3: every cell is in exactly one row container and exactly one column
\* container, and the cell at index c of row r is the cell at index r of
\* column c.
C3_RowsAndColsAgree ==
    /\ \A id \in SeqIds(world.quadrantRows) \cup SeqIds(world.quadrantCols) : Cardinality(PlacesInRows(world, id)) = 1 /\ Cardinality(PlacesInCols(world, id)) = 1
    /\ \A r \in 1..Len(world.quadrantRows) : \A c \in 1..Len(world.quadrantRows[r].quadrants) :
        /\ c <= Len(world.quadrantCols)
        /\ r <= Len(world.quadrantCols[c].quadrants)
        /\ world.quadrantCols[c].quadrants[r] = world.quadrantRows[r].quadrants[c]

\* C4 as stated: shiftQuadrants(dx, dy) followed by shiftQuadrants(-dx, -dy)
\* restores the bounds of every cell and the row and column counts, for all
\* deltas smaller than one full grid traversal.
C4_RoundTripRestores ==
    (last.returned /\ Abs(last.dx) < settingsNumCols * quadrantWidth /\ Abs(last.dy) < settingsNumRows * quadrantHeight) => Bounds(world) = last.origin

\* Whether the first shift of a round trip left the accumulated offsets
\* within one cell, so that adjustOffsets added and removed nothing.
FirstShiftFits == Abs(last.originOffsetX - last.dx) <= quadrantWidth /\ Abs(last.originOffsetY - last.dy) <= quadrantHeight

\* C4, amended: shiftQuadrants(dx, dy) followed by shiftQuadrants(-dx, -dy)
\* restores the bounds of every cell and the row and column counts whenever
\* the first shift keeps the accumulated offsets within one cell
\* (|offsetX + dx| <= quadrantWidth and |offsetY + dy| <= quadrantHeight).
C4_RoundTripWithinOneCell ==
    (last.returned /\ FirstShiftFits) => Bounds(world) = last.origin

\* A round trip with a delta larger than one cell that came back.
C4_Witness == last.returned /\ FirstShiftFits /\ Abs(last.dx) > quadrantWidth /\ last.dy # 0 /\ Bounds(world) = last.origin

(***************************************************************************)
(* Claims about the Things' Quadrants.                                     *)
(***************************************************************************)
\* The Quadrants of the grid whose list for the group, up to its member
\* count, holds Thing t.
CellsReferencing(w, t) == {id \in SeqIds(w.quadrantRows) : \E i \in 1..w.heap[id].numthings[w.things[t].group] : i <= Len(w.heap[id].things[w.things[t].group]) /\ w.heap[id].things[w.things[t].group][i] = t}

\* The Quadrants of the grid whose bounds meet the box of Thing t.  A
\* Quadrant owns its top and left edges and not its bottom and right ones.
CellsIntersecting(w, t) == {id \in SeqIds(w.quadrantRows) : w.heap[id].top <= w.things[t].bottom /\ w.things[t].top < w.heap[id].bottom /\ w.heap[id].left <= w.things[t].right /\ w.things[t].left < w.heap[id].right}

\* C1: after determineThingQuadrants(E), the cells whose membership list for
\* E's group references E are exactly the cells whose bounds intersect E's
\* box, also when E was placed by an earlier call and has moved since.
C1_MembersAreIntersecting ==
    last.op = "determineThingQuadrants" => CellsReferencing(world, last.thing) = CellsIntersecting(world, last.thing)

(***************************************************************************)
(* Claims about the quadrant-mode frame draw.                              *)
(***************************************************************************)
Repaints(id) == Len(SelectSeq(drawn, LAMBDA c : c.call = "drawBackground" /\ c.quadrant = id))
Blits(id) == Len(SelectSeq(drawn, LAMBDA c : c.call = "drawImage" /\ c.quadrant = id))

\* C5: if no cell has its changed flag set, refillQuadrantGroups over all
\* rows makes no drawing call at all.
C5_NothingChangedNothingDrawn ==
    (last.op = "refillQuadrantGroups" /\ last.changedBefore = {}) => drawn = <<>>

\* A frame that was not skipped found every cell unchanged.
C5_Witness == last.op = "refillQuadrantGroups" /\ ~last.skipped /\ last.changedBefore = {} /\ drawn = <<>>

\* Whether a Quadrant overlaps the viewport (0, 0)-(width, height).
InViewport(quadrant) == quadrant.left < MapScreenerWidth /\ quadrant.right > 0 /\ quadrant.top < MapScreenerHeight /\ quadrant.bottom > 0

\* C6: on a frame draw that framerateSkip does not skip, every cell that is
\* changed and in the viewport is repainted and blitted exactly once and ends
\* unchanged; every other cell is neither repainted nor blitted and keeps its
\* changed flag.
C6_ChangedVisibleCellsRedrawn ==
    (last.op = "refillQuadrantGroups" /\ ~last.skipped) =>
        \A id \in SeqIds(world.quadrantRows) :
            IF id \in last.changedBefore /\ InViewport(world.heap[id])
            THEN Repaints(id) = 1 /\ Blits(id) = 1 /\ ~world.heap[id].changed
            ELSE Repaints(id) = 0 /\ Blits(id) = 0 /\ world.heap[id].changed = (id \in last.changedBefore)

\* A frame that repainted some cells, left a changed cell outside the
\* viewport alone and left an unchanged cell alone.
C6_Witness ==
    /\ last.op = "refillQuadrantGroups" /\ ~last.skipped
    /\ \E id \in last.changedBefore : InViewport(world.heap[id]) /\ Blits(id) = 1
    /\ \E id \in last.changedBefore : ~InViewport(world.heap[id]) /\ world.heap[id].changed
    /\ \E id \in SeqIds(world.quadrantRows) : id \notin last.changedBefore /\ Blits(id) = 0

(***************************************************************************)
(* spriteUnravel.                                                          *)
(***************************************************************************)
Unravelled == sprite.st.loc >= Len(sprite.st.colors)

\* What the last pass appended to output.
Appended == Slice(sprite.st.output, Len(sprite.prev.output), Len(sprite.st.output))

\* The part written at position loc of the encoding, 0 when none starts there.
PartAt(loc) ==
    LET starting == {k \in 1..Len(sprite.parts) : Len(Render(sprite.st.paletteDefault, sprite.parts, k - 1)) = loc}
    IN  IF starting = {} THEN 0 ELSE CHOOSE k \in starting : TRUE

\* The last p before part k, 0 when none.
Governing(k) ==
    LET declared == {g \in 1..(k - 1) : sprite.parts[g].kind \in {"reset", "declare"}}
    IN  IF declared = {} THEN 0 ELSE CHOOSE g \in declared : \A j \in declared : j <= g

\* The part the last pass read, 0 before the first pass.
PartRead == IF sprite.passes = 0 THEN 0 ELSE PartAt(sprite.prev.loc)

\* C7: a run x<d><n>, unravels to the same digits, and so to the same
\* pixels, as the digit d written n times in its place; "x022,1" with the
\* three-colour palette gives 22 pixels of entry 0 and then one of entry 1.
C7_RunEqualsRepeatedDigit ==
    Unravelled =>
        LET paletteDefault == sprite.st.paletteDefault
            written == spriteUnravel(paletteDefault, Encode(paletteDefault, Expand(sprite.parts)))
        IN  /\ sprite.st.output = written
            /\ spriteGetArray(paletteDefault, sprite.st.output) = spriteGetArray(paletteDefault, written)
            /\ (paletteDefault = Palette3 /\ sprite.st.colors = <<"x", "0", "2", "2", ",", "1">>) =>
                spriteGetArray(paletteDefault, sprite.st.output) = [thrown |-> FALSE, output |-> [j \in 1..92 |-> IF j <= 88 THEN Palette3[1][((j - 1) % 4) + 1] ELSE Palette3[2][j - 88]]]

C7_Witness ==
    /\ Unravelled
    /\ sprite.st.paletteDefault = Palette3
    /\ sprite.st.colors = <<"x", "0", "2", "2", ",", "1">>
    /\ Len(sprite.st.output) = 23

\* C8: after a p that is not followed by "[", a literal digit unravels to
\* what it unravels to at the start of an encoding, read with the default
\* digit size.
C8_ResetRestoresDefault ==
    LET k == PartRead
    IN  (k > 0 /\ sprite.parts[k].kind = "literal" /\ Governing(k) > 0 /\ sprite.parts[Governing(k)].kind = "reset") =>
            /\ sprite.prev.digitsize = getDigitSize(sprite.st.paletteDefault)
            /\ Appended = spriteUnravel(sprite.st.paletteDefault, Encode(sprite.st.paletteDefault, <<sprite.parts[k]>>))

\* C9: after p[i0,...,ik] the digit size is 1 and a literal digit j
\* unravels to the default index i_j padded to the default digit size,
\* whatever the length of the palette and whichever declaration it is.
C9_DeclaredPaletteMapsDigits ==
    LET k == PartRead
    IN  (k > 0 /\ sprite.parts[k].kind = "literal" /\ Governing(k) > 0 /\ sprite.parts[Governing(k)].kind = "declare") =>
            /\ sprite.prev.digitsize = 1
            /\ Appended = makeDigit(StringOfNumber(sprite.parts[Governing(k)].entries[sprite.parts[k].d + 1]), getDigitSize(sprite.st.paletteDefault))

\* C10: on a well-formed encoding the read position never moves backwards,
\* so the loop ends within as many passes as the encoding has characters.
C10_ReadPositionAdvances ==
    /\ sprite.st.loc >= sprite.prev.loc
    /\ sprite.passes <= Len(sprite.st.colors)

(***************************************************************************)
(* StringFilr.                                                             *)
(***************************************************************************)
\* The tokens of a key, as a set.
TokenSet(keyRaw) == {SplitSpaces(keyRaw)[i] : i \in 1..Len(SplitSpaces(keyRaw))}

\* C11: two keys with the same tokens in different orders get the same
\* entry of the library.
C11_GetIgnoresTokenOrder ==
    filr.gets > 0 => \A other \in KeyStrings : TokenSet(other) = TokenSet(filr.keyRaw) => get(filr, other).result = filr.result

\* C12: a lookup returns a node only when the node has no normal entry;
\* where no token matches, and where none remains, it goes into the normal
\* entry.
C12_ReturnedNodeHasNoNormal ==
    filr.gets > 0 => Append(filr.result, normal) \notin filr.library

(***************************************************************************)
(* PixelRendr.decode.                                                      *)
(***************************************************************************)
\* The sprite of the library the key of the last decode names.
SpriteDecoded == rendr.sprites[get(rendr.BaseFiler, rendr.key).result]

\* C13: decode returns the sprite adjusted for the attributes of the
\* request, also when the key was decoded before with other attributes.
C13_DecodeAdjustsForRequest ==
    rendr.decodes > 0 => rendr.result = ProcessorDimsPipeline(SpriteDecoded, rendr.key, rendr.attributes)

(***************************************************************************)
(* PixelRendr.spriteApplyFilter.                                           *)
(***************************************************************************)
\* What a filter has for a digit group: the group itself when it has no
\* member for it.
Mapped(filter, group) ==
    LET at == {i \in 1..Len(filter[2]) : filter[2][i][1] = group}
    IN  IF at = {} THEN group ELSE filter[2][CHOOSE i \in at : TRUE][2]

\* C14: the palette filter replaces every digit group of the unravelled
\* string by what the mapping has for it, and leaves the others as they
\* are; a replaced group is not replaced again.
C14_FilterSubstitutesOnce ==
    (rendr.call.name = "spriteApplyFilter" /\ rendr.call.returned /\ rendr.call.filter[1] = "palette") =>
        LET split == DigitSplit(rendr.call.colors, getDigitSize(rendr.call.paletteDefault))
        IN  rendr.call.result = JoinAll([i \in 1..Len(split) |-> Mapped(rendr.call.filter, split[i])])

(***************************************************************************)
(* PixelRendr.encode.                                                      *)
(***************************************************************************)
\* An image with every pixel replaced by the member of the default palette
\* getClosestInPalette finds for it.
Quantized(paletteDefault, image) == JoinAll([j \in 1..Len(image) |-> paletteDefault[getClosestInPalette(paletteDefault, image[j]) + 1]])

ChannelDifference(a, b) == Abs(a[1] - b[1]) + Abs(a[2] - b[2]) + Abs(a[3] - b[3]) + Abs(a[4] - b[4])

\* C16: getClosestInPalette returns an index of the least summed absolute
\* channel difference to the pixel, and the lowest of the indices that have
\* that difference.
C16_ClosestIsLowestMinimal ==
    (rendr.call.name = "getClosestInPalette" /\ rendr.call.returned) =>
        LET palette == rendr.call.palette
            rgba == rendr.call.rgba
            found == rendr.call.result
        IN  /\ found \in 0..(Len(palette) - 1)
            /\ \A i \in 0..(Len(palette) - 1) : ChannelDifference(palette[found + 1], rgba) <= ChannelDifference(palette[i + 1], rgba)
            /\ \A i \in 0..(Len(palette) - 1) : ChannelDifference(palette[i + 1], rgba) = ChannelDifference(palette[found + 1], rgba) => found <= i

(***************************************************************************)
(* PixelRendr.spriteUnravel of literal digits only.                        *)
(***************************************************************************)
LiteralsOnly == \A k \in 1..Len(sprite.parts) : sprite.parts[k].kind = "literal"

\* C17: for an encoding of literal digit groups only, the output of
\* spriteUnravel is as long as the input divided by the digit size and
\* multiplied by the default digit size: one group of the default digit
\* size for every pixel of the input.
C17_LiteralsKeepLength ==
    (Unravelled /\ LiteralsOnly) =>
        LET digitsizeDefault == getDigitSize(sprite.st.paletteDefault)
            digitsize == ActiveDigitSize(sprite.st.paletteDefault, sprite.parts)
        IN  /\ Len(sprite.st.colors) % digitsize = 0
            /\ Len(sprite.st.output) = (Len(sprite.st.colors) \div digitsize) * digitsizeDefault
            /\ Len(sprite.st.output) = Len(sprite.parts) * digitsizeDefault

C17_Witness ==
    /\ Unravelled
    /\ LiteralsOnly
    /\ sprite.st.paletteDefault = Palette11
    /\ sprite.st.colors = <<"1", "0", "0", "2">>
    /\ sprite.st.output = <<"1", "0", "0", "2">>

(***************************************************************************)
(* QuadsKeepr.determineThingQuadrants and the edges of the Quadrants.      *)
(***************************************************************************)
\* The Quadrants the last determineThingQuadrants put its Thing in.
Added == {world.things[last.thing].quadrants[i] : i \in 1..world.things[last.thing].numquads}

\* C18: determineThingQuadrants does not add a Thing whose bottom is the top
\* of a Quadrant, or whose right is the left of a Quadrant, to that
\* Quadrant; and a Thing of top 5, left 5, right 15, bottom 15 in the grid
\* of 3 x 3 Quadrants of 10 x 10 is put in rows 0-1 of columns 0-1 only.
C18_BoundaryGoesToLowerCell ==
    last.op = "determineThingQuadrants" =>
        LET thing == world.things[last.thing]
        IN  /\ \A id \in Added : world.heap[id].top # thing.bottom /\ world.heap[id].left # thing.right
            /\ (<<thing.top, thing.left, thing.right, thing.bottom>> = <<5, 5, 15, 15>> /\ Bounds(world) = Bounds(resetQuadrants(Constructed))) =>
                Added = {world.quadrantRows[row].quadrants[col] : row \in 1..2, col \in 1..2}

\* C19: after any calls of determineAllQuadrants, determineThingQuadrants
\* and shiftQuadrants, the numquads of every Thing is the number of
\* Quadrants of the grid whose lists hold the Thing.
C19_NumquadsCountsReferences ==
    \A t \in ThingNames : world.things[t].numquads = Cardinality(CellsReferencing(world, t))

(***************************************************************************)
(* QuadsKeepr.shiftQuadrants and the offsets.                              *)
(***************************************************************************)
\* C20: when shiftQuadrants returns, offsetX is at most quadrantWidth and
\* offsetY at most quadrantHeight in absolute value, however large dx and
\* dy are.
C20_OffsetsWithinOneCell ==
    last.op = "shiftQuadrants" => Abs(world.offsetX) <= quadrantWidth /\ Abs(world.offsetY) <= quadrantHeight

\* A shift of more than two Quadrants' width from an offset of 5 has
\* returned, and the offset is one Quadrant's width.
C20_Witness ==
    /\ last.op = "shiftQuadrants"
    /\ last.dx = 25
    /\ last.offsetX = 5
    /\ world.offsetX = quadrantWidth

(***************************************************************************)
(* QuadsKeepr: the onAdd and onRemove calls.                               *)
(***************************************************************************)
\* C21: every onAdd and onRemove call of a reset or of the adding or
\* removing of a row or column gives a rectangle whose top is not below its
\* bottom and whose left is not right of its right, and a direction that is
\* one of the four; the call of a reset gives the bounds of the grid.
C21_CallbackRectanglesOrdered ==
    \A i \in 1..Len(world.calls) :
        LET call == world.calls[i]
        IN  /\ call.top <= call.bottom
            /\ call.left <= call.right
            /\ call.direction \in {"xInc", "xDec", "yInc", "yDec"}
            /\ last.op = "resetQuadrants" => <<call.top, call.right, call.bottom, call.left>> = <<world.top, world.right, world.bottom, world.left>>

(***************************************************************************)
(* PixelDrawr: drawing a Thing on a context.                               *)
(***************************************************************************)
\* C22: when drawThingOnContext or drawThingOnQuadrant has returned, the
\* globalAlpha of the context is 1 and its translation is what it was
\* before the call.
C22_DrawLeavesContextAsItWas ==
    canvas.called # Undefined => canvas.context.globalAlpha = AlphaOne /\ canvas.context.translation = canvas.before.translation

\* A Thing of nine canvases and half opacity has been drawn.
C22_Witness ==
    /\ canvas.called = "drawThingOnQuadrant"
    /\ canvas.thing.canvases.direction = "corners"
    /\ Len(canvas.context.painted) = 9
    /\ \A i \in 1..9 : canvas.context.painted[i].alpha = 500
    /\ canvas.context.globalAlpha = AlphaOne

\* What was painted from the middle canvas.
MiddlePainted == SelectSeq(canvas.context.painted, LAMBDA p : p.source = "middle")

\* A vertical SpriteMultiple with a top, a bottom and a middle canvas and
\* the thicknesses of the first two given.
VerticalDrawn ==
    /\ canvas.called # Undefined
    /\ canvas.thing.canvases.direction = "vertical"
    /\ canvas.thing.canvases.parts = {"top", "bottom", "middle"}
    /\ canvas.thing.sprite.topheight >= 1
    /\ canvas.thing.sprite.bottomheight >= 1

\* C23: a vertical SpriteMultiple of top thickness t and bottom thickness b,
\* drawn at unit size 1 with a height h of at least t + b, has its middle
\* painted h - t - b pixels high from t pixels below its top.
C23_MiddleGetsRemainingHeight ==
    VerticalDrawn =>
        LET t == canvas.thing.sprite.topheight
            b == canvas.thing.sprite.bottomheight
            h == canvas.thing.unitheight
        IN  IF h - t - b > 0
            THEN /\ Len(MiddlePainted) = 1
                 /\ MiddlePainted[1].height = h - t - b
                 /\ MiddlePainted[1].top = canvas.origin[2] + t
            ELSE MiddlePainted = <<>>

C23_Witness ==
    /\ VerticalDrawn
    /\ canvas.thing.sprite.topheight = 2
    /\ canvas.thing.sprite.bottomheight = 3
    /\ canvas.thing.unitheight = 7
    /\ Len(MiddlePainted) = 1
    /\ MiddlePainted[1].height = 2

\* Two painted rectangles that have a pixel in common.
Overlap(p, q) == p.left < q.left + q.width /\ q.left < p.left + p.width /\ p.top < q.top + q.height /\ q.top < p.top + p.height

Branches(library) == {<<>>} \cup {path \in library : IsObject(library, path)}

\* C25: with requireNormalKey, new StringFilr throws when some Object of
\* the library, at whatever depth, has no key of the normal token, and only
\* then.
C25_StrictModeChecksEveryBranch ==
    (filr.constructed /\ filr.settings.requireNormalKey) =>
        (filr.thrown <=> \E path \in Branches(filr.settings.library) : Append(path, normal) \notin filr.settings.library)

(***************************************************************************)
(* Required settings.                                                      *)
(***************************************************************************)
\* C26: new PixelRendr throws when paletteDefault or library is not given,
\* and new QuadsKeepr throws when numRows, numCols, quadrantWidth or
\* quadrantHeight is not given.
C26_MissingSettingThrows ==
    /\ (rendr.constructed /\ {"paletteDefault", "library"} \ rendr.settings # {}) => rendr.thrown
    /\ (world.constructed /\ {"numRows", "numCols", "quadrantWidth", "quadrantHeight"} \ world.settings # {}) => world.thrown

(***************************************************************************)
(* The caches of StringFilr.get and ChangeLinr.process.                    *)
(***************************************************************************)
\* Every entry of a cache is in the cache afterwards, with the same value.
Kept(before, after) == \A key \in DOMAIN before : key \in DOMAIN after /\ after[key] = before[key]

\* C27: a get or a process leaves every entry of its cache as it was, and
\* a call with a key that has an entry returns what the entry holds.
C27_CachesAreAppendOnly ==
    [][/\ Kept(filr.cache, filr'.cache)
       /\ (filr'.gets # filr.gets /\ filr'.keyRaw \in DOMAIN filr.cache) => filr'.result = filr.cache[filr'.keyRaw]
       /\ Kept(rendr.ProcessorDims, rendr'.ProcessorDims)
       /\ (rendr'.decodes # rendr.decodes /\ rendr'.key \in DOMAIN rendr.ProcessorDims) => rendr'.result = rendr.ProcessorDims[rendr'.key]]_vars

(***************************************************************************)
(* GamesRunnr.step and GamesRunnr.pause.                                   *)
(***************************************************************************)
\* The games, in their order, so many times over.
RECURSIVE GamesTimes(_)
GamesTimes(times) == IF times = 0 THEN <<>> ELSE Games \o GamesTimes(times - 1)

\* C28: step(n) on a paused runner, n >= 1, runs every game n times, in the
\* order of the games Array upkeep by upkeep, and leaves the runner paused;
\* step() runs them once.
C28_StepRunsUpkeepTimesOver ==
    (runner.called = "step" /\ runner.wasPaused) =>
        /\ runner.paused
        /\ runner.times >= 1 => runner.ran = GamesTimes(runner.times)
        /\ runner.times = NoArgument => runner.ran = GamesTimes(1)

\* C29: after pause() on a playing runner no call of upkeep scheduled
\* through the upkeepScheduler is pending.
C29_PauseCancelsScheduledUpkeep ==
    (runner.called = "pause" /\ ~runner.wasPaused) => runner.pending = {}

(***************************************************************************)
(* AudioPlayr.setMuted and AudioPlayr.toggleMuted.                         *)
(***************************************************************************)
\* C30: after setMuted(m) the player is muted exactly when m is true, and
\* toggleMuted() leaves getMuted() the opposite of what it was.
C30_SetMutedSetsAndToggleFlips ==
    /\ player.called = "setMuted" => (getMuted(player) <=> player.argument)
    /\ player.called = "toggleMuted" => (getMuted(player) <=> ~player.wasMuted)

(***************************************************************************)
(* StatsHoldr: the minimum and the maximum of a value.                     *)
(***************************************************************************)
\* C31: after set, increase or decrease the value is within the minimum
\* and the maximum: what was below the minimum is the minimum, what was
\* above the maximum is the maximum, and what was strictly between them is
\* stored as it was.
C31_ValueKeptWithinMinimumAndMaximum ==
    stats.called \in {"set", "increase", "decrease"} =>
        /\ stats.minimum <= stats.value /\ stats.value <= stats.maximum
        /\ stats.given < stats.minimum => stats.value = stats.minimum
        /\ stats.given > stats.maximum => stats.value = stats.maximum
        /\ (stats.minimum < stats.given /\ stats.given < stats.maximum) => stats.value = stats.given

(***************************************************************************)
(* MapsHandlr.spawnMap and MapsHandlr.unspawnMap.                          *)
(***************************************************************************)
\* Whether a bounding box touches the box of a PreThing.
Touched(prething, box) ==
    /\ prething.left <= box.right
    /\ prething.right >= box.left
    /\ prething.top <= box.bottom
    /\ prething.bottom >= box.top

\* C32: spawnMap calls onSpawn on the PreThings that were not spawned and
\* whose box the bounding box touches, and on no others, whatever the
\* direction.
C32_SpawnMapSpawnsWhatTheBoxTouches ==
    (maps.called = "spawnMap" /\ maps.onSpawn) =>
        {maps.calls[i][2] : i \in 1..Len(maps.calls)} = {place \in 1..Len(maps.prethings) : ~maps.before[place] /\ Touched(maps.prethings[place], maps.box)}

\* The callbacks made on a PreThing take turns, onSpawn first.
Alternating(history) == \A i \in 1..Len(history) : history[i] = (i % 2 = 1)

C33_SetMidCentresTheThing ==
    /\ physics.called = "setMidX" =>
        /\ getMidX(physics) = physics.x
        /\ physics.right - physics.left = physics.width * physics.EightBitter.unitsize
    /\ physics.called = "setMidY" => getMidY(physics) = physics.y

(***************************************************************************)
(* determineAllQuadrants and the repaint of the Quadrants after it.        *)
(***************************************************************************)
\* The Things of an Array whose box meets a Quadrant, in the Array's order.
\* A Quadrant owns its top and left edges and not its bottom and right ones.
Meeting(w, things, quadrant) ==
    SelectSeq(things, LAMBDA t : quadrant.top <= w.things[t].bottom /\ w.things[t].top < quadrant.bottom /\ quadrant.left <= w.things[t].right /\ w.things[t].left < quadrant.right)

ThingsDrawn == SelectSeq(drawn, LAMBDA c : c.call = "drawThing")

\* C35: when the Quadrants are repainted after determineAllQuadrants, a
\* Thing is drawn on a Quadrant at most once, and only when it is among the
\* first numthings entries of the Quadrant's Array for its group.
C35_OnlyCurrentMembersDrawnOnce ==
    (last.op = "refillQuadrantGroups" /\ ~last.skipped /\ last.after = "determineAllQuadrants") =>
        /\ \A i \in 1..Len(ThingsDrawn) :
            LET c == ThingsDrawn[i]
                quadrant == world.heap[c.quadrant]
                group == world.things[c.thing].group
            IN  \E j \in 1..quadrant.numthings[group] : quadrant.things[group][j] = c.thing
        /\ \A i \in 1..Len(ThingsDrawn), j \in 1..Len(ThingsDrawn) :
            (ThingsDrawn[i].quadrant = ThingsDrawn[j].quadrant /\ ThingsDrawn[i].thing = ThingsDrawn[j].thing) => i = j

(***************************************************************************)
(* PixelRendr.decode of a key that names a SpriteMultiple.                 *)
(***************************************************************************)
\* The SpriteMultiple evaluatePostMultiple makes of a command: its parts
\* are sprites as ProcessorBase left them, and it is not yet processed.
SpriteMultiple(direction, parts) ==
    [direction |-> direction, multiple |-> TRUE, sprites |-> parts, processed |-> FALSE]

\* The names of the parts, in the order for..in goes through them.
MultipleParts == <<<<"t", "o", "p">>, <<"m", "i", "d">>>>

MultipleKeys == {<<"m">>, <<"m", " ", "h">>, <<"m", " ", "v">>, <<"m", " ", "h", " ", "v">>, <<"n", " ", "m">>}

\* processSpriteMultiple: part number n and those after it are given to
\* ProcessorDims.process under the key of the decode and their own name.
RECURSIVE processSpriteMultipleLoop(_, _, _, _)
processSpriteMultipleLoop(r, key, attributes, n) ==
    IF n > Len(MultipleParts) THEN r
    ELSE LET i == MultipleParts[n]
             processed == process(r.ProcessorDims, r.sprite.sprites[i], key \o <<" ">> \o i, attributes)
         IN  processSpriteMultipleLoop([r EXCEPT !.sprite.sprites[i] = processed.result, !.ProcessorDims = processed.cache, !.times[i] = @ + 1], key, attributes, n + 1)

processSpriteMultiple(r, key, attributes) ==
    [processSpriteMultipleLoop(r, key, attributes, 1) EXCEPT !.sprite.processed = TRUE]

decodeMultipleAlways(r, key, attributes) == processSpriteMultiple(r, key, attributes)

\* decode(key, attributes) once BaseFiler.get has found a SpriteMultiple.
decodeMultiple(r, key, attributes) ==
    IF ~r.sprite.processed THEN processSpriteMultiple(r, key, attributes) ELSE r

\* A PixelRendr whose library holds one SpriteMultiple, under "m"; times
\* counts the calls of ProcessorDims.process for each part.
PixelRendrMultiple ==
    [sprite |-> SpriteMultiple("vertical", (MultipleParts[1] :> SpriteA) @@ (MultipleParts[2] :> SpriteB)),
     BaseFiler |-> StringFilr({<<<<"m">>>>}), ProcessorDims |-> <<>>, key |-> <<>>,
     attributes |-> [spriteWidth |-> 0, spriteHeight |-> 0], result |-> <<>>, decodes |-> 0,
     times |-> [i \in {MultipleParts[n] : n \in 1..Len(MultipleParts)} |-> 0]]

InitMultiple ==
    /\ world = Canonical(resetQuadrants(Constructed))
    /\ framesDrawn = 0
    /\ maps = MapsIdle
    /\ physics = PhysicsIdle
    /\ canvas = CanvasIdle
    /\ runner = RunnerIdle
    /\ player = PlayerIdle
    /\ stats = StatsIdle
    /\ drawn = <<>>
    /\ last = Op("resetQuadrants", Undefined, Undefined)
    /\ ops = 0
    /\ sprite = SpriteIdle
    /\ filr = FilrIdle
    /\ rendr = PixelRendrMultiple

DecodeMultiple(key, attributes) ==
    /\ rendr.decodes < MaxDecodes + 1
    /\ LET found == get(rendr.BaseFiler, key)
           decoded == decodeMultiple([rendr EXCEPT !.BaseFiler.cache = found.cache], key, attributes)
       IN  /\ found.result = <<<<"m">>>>
           /\ rendr' = [decoded EXCEPT !.key = key, !.attributes = attributes, !.result = decoded.sprite.sprites, !.decodes = @ + 1]
    /\ UNCHANGED <<world, framesDrawn, drawn, last, ops, filr, sprite, canvas, runner, player, stats, maps, physics>>

NextMultiple == \E key \in MultipleKeys, attributes \in Attributes : DecodeMultiple(key, attributes)

SpecMultiple == InitMultiple /\ [][NextMultiple]_vars

\* C36: the parts of a SpriteMultiple are given to the dimension processing
\* once each, by the first decode and by no later one: processed goes from
\* false to true and stays, and every later decode returns the buffers the
\* first one made.
C36_MultipleProcessedOnce ==
    [][/\ rendr'.sprite.processed
       /\ \A i \in DOMAIN rendr'.times : rendr'.times[i] = 1
       /\ rendr.sprite.processed => (rendr'.sprite = rendr.sprite /\ rendr'.result = rendr.result)
       /\ rendr'.result = rendr'.sprite.sprites]_vars

\* A second decode, under another key and with other attributes, of the
\* SpriteMultiple the first decode flipped.
C36_Witness ==
    /\ rendr.decodes = 2
    /\ rendr.sprite.processed
    /\ rendr.key = <<"m">>
    /\ rendr.attributes.spriteWidth = 4
    /\ rendr.result[MultipleParts[1]] = ProcessorDimsPipeline(SpriteA, <<"m", " ", "h", " ", "t", "o", "p">>, [spriteWidth |-> 2, spriteHeight |-> 2])
    /\ rendr.result[MultipleParts[1]] # ProcessorDimsPipeline(SpriteA, <<"m", " ", "t", "o", "p">>, [spriteWidth |-> 4, spriteHeight |-> 1])

(***************************************************************************)
(* The flips of spriteFlipDimensions, applied to the buffers Init draws.   *)
(***************************************************************************)
\* A buffer of whole rows: the members of pixel i are 10 * i + channel.
RowsBuffer(width, height) == [q \in 1..(4 * width * height) |-> 10 * (((q - 1) \div 4) + 1) + ((q - 1) % 4)]

FlipSizes == {1, 2, 3}
FlipKeys == {<<"k", " ", "h">>, <<"v", " ", "k">>, <<"k", " ", "h", " ", "v">>}

Flipping(array, width) == [array |-> array, attributes |-> [spriteWidth |-> width, spriteHeight |-> Len(array) \div (4 * width)], flipped |-> array, keys |-> <<>>]

InitFlip ==
    /\ world = Canonical(resetQuadrants(Constructed))
    /\ framesDrawn = 0
    /\ maps = MapsIdle
    /\ physics = PhysicsIdle
    /\ canvas = CanvasIdle
    /\ runner = RunnerIdle
    /\ player = PlayerIdle
    /\ stats = StatsIdle
    /\ drawn = <<>>
    /\ last = Op("resetQuadrants", Undefined, Undefined)
    /\ ops = 0
    /\ filr = FilrIdle
    /\ rendr = RendrIdle
    /\ \E width \in FlipSizes, height \in FlipSizes : sprite = Flipping(RowsBuffer(width, height), width)

SpriteFlipDimensions(key) ==
    /\ Len(sprite.keys) < MaxFlips
    /\ sprite' = [sprite EXCEPT !.flipped = spriteFlipDimensions(sprite.flipped, key, sprite.attributes), !.keys = Append(@, key)]
    /\ UNCHANGED <<world, framesDrawn, drawn, last, ops, filr, rendr, canvas, runner, player, stats, maps, physics>>

NextFlip == \E key \in FlipKeys : SpriteFlipDimensions(key)

SpecFlip == InitFlip /\ [][NextFlip]_vars

OnlyHoriz(key) == Contains(key, flipHoriz) /\ ~Contains(key, flipVert)
OnlyVert(key) == Contains(key, flipVert) /\ ~Contains(key, flipHoriz)
BothMarkers(key) == Contains(key, flipHoriz) /\ Contains(key, flipVert)

\* C37: on a buffer of whole rows, the flip for a key with both markers is
\* the horizontal flip followed by the vertical one and the vertical one
\* followed by the horizontal one, and two horizontal flips or two vertical
\* flips give the buffer back.
C37_FlipsComposeAndUndo ==
    /\ (Len(sprite.keys) = 1 /\ BothMarkers(sprite.keys[1])) =>
        /\ sprite.flipped = spriteFlipDimensions(spriteFlipDimensions(sprite.array, flipHoriz, sprite.attributes), flipVert, sprite.attributes)
        /\ sprite.flipped = spriteFlipDimensions(spriteFlipDimensions(sprite.array, flipVert, sprite.attributes), flipHoriz, sprite.attributes)
    /\ (Len(sprite.keys) = 2 /\ OnlyHoriz(sprite.keys[1]) /\ OnlyVert(sprite.keys[2])) =>
        sprite.flipped = spriteFlipDimensions(sprite.array, flipHoriz \o flipVert, sprite.attributes)
    /\ (Len(sprite.keys) = 2 /\ OnlyVert(sprite.keys[1]) /\ OnlyHoriz(sprite.keys[2])) =>
        sprite.flipped = spriteFlipDimensions(sprite.array, flipHoriz \o flipVert, sprite.attributes)
    /\ (Len(sprite.keys) = 2 /\ OnlyHoriz(sprite.keys[1]) /\ OnlyHoriz(sprite.keys[2])) => sprite.flipped = sprite.array
    /\ (Len(sprite.keys) = 2 /\ OnlyVert(sprite.keys[1]) /\ OnlyVert(sprite.keys[2])) => sprite.flipped = sprite.array

\* A buffer of three rows of two pixels, flipped horizontally and then
\* vertically: its last pixel has come first.
C37_Witness ==
    /\ sprite.keys = <<<<"k", " ", "h">>, <<"v", " ", "k">>>>
    /\ sprite.attributes = [spriteWidth |-> 2, spriteHeight |-> 3]
    /\ sprite.flipped[1] = 60
    /\ sprite.flipped # sprite.array

(***************************************************************************)
(* GamesRunnr: the games and the scheduled upkeeps.                        *)
(***************************************************************************)
\* C39: no game is called while the runner is paused, whatever the order of
\* play, pause, step, togglePause and the scheduled upkeeps, a game that
\* calls pause() during an upkeep included.
C39_NoGameCalledWhilePaused == runner.ranPaused = <<>>

\* C40: at most one scheduled call of upkeep is pending, neither run nor
\* cancelled, whatever the order of play, pause, step and the scheduled
\* upkeeps, with adjustFramerate on or off.
C40_AtMostOneUpkeepPending == Cardinality(runner.pending) <= 1

\* An upkeep has been scheduled by a play after a pause that left the one
\* before it pending.
C40_Witness ==
    /\ runner.called = "play"
    /\ runner.wasPaused
    /\ runner.handles >= 2
    /\ runner.pending = {runner.upkeepNext}

====
